---- MODULE Spec2Model ----
(***************************************************************************)
(* A model of the PISM stress-balance core: grid iteration (IceGrid.hh),   *)
(* the padded multigrid decomposition and node classification of the       *)
(* Poisson3 verification solver (Poisson3.cc), Dirichlet enforcement of    *)
(* the FEM tools (FETools.cc), the element Jacobian of the Blatter solver   *)
(* (Blatter.cc), the SNES solve and its callbacks (Poisson3::update), the  *)
(* guarded loop of fix_jacobian, remove_narrow_tongues and the assembly    *)
(* of residual and Jacobian on the 3D grid (compute_residual,              *)
(* compute_jacobian).                                                      *)
(*                                                                         *)
(* Each component has its own specification over the shared variables;     *)
(* the variables of the other components keep their idle value.            *)
(* Real-valued quantities are integers; the element Jacobian of the        *)
(* Blatter solver is computed with rounding to a bounded mantissa, the     *)
(* scaling of the 3D assembly in exact fractions.                          *)
(***************************************************************************)
EXTENDS Integers, Sequences, FiniteSets, TLC

VARIABLES
  grid,       \* IceGrid / DMDALocalInfo of the calling process
  pts,        \* a PointsWithGhosts iterator (its private fields)
  visited,    \* the index pairs the loop body has seen, in order
  ncalls,     \* number of calls of next() made by the loop
  width,      \* the stencil_width argument the iterator was built with
  da,         \* the padded DMDA built by Poisson3::setup
  owned,      \* per rank: the pairs its owned-only loop visited
  dir,        \* a DirichletData object: m_indices, m_values, m_weight
  elem,       \* a fem::Element: m_i, m_j, m_row, m_col
  J,          \* the Jacobian matrix (Mat J), one block per pair of nodes
  todo,       \* the elements the assembly loop has still to visit
  x_global,   \* the current iterate
  r_global,   \* the residual
  x_nodal,    \* the element-local nodal values of the iterate
  op,         \* the operation performed last
  pc,         \* the phase of the assembly
  P,          \* the 2D parameters of a level: thickness and node_type
  level,      \* the multigrid level P belongs to (0: the finest)
  pass,       \* how often the node types of the level were computed
  K,          \* the element Jacobian (double K[16][16]) of the Blatter solver
  work,       \* its quadrature-point data: m_work, m_work2, eta, deta, beta
  m_grid_info, \* the GridInfo of Poisson3::setup: x_min, x_max, y_min, y_max
  m_x,        \* the stored iterate of Poisson3 (Vec m_x)
  m_solution, \* the exposed solution field of Poisson3
  snes,       \* the nonlinear solve of Poisson3::update and its callbacks
  section,    \* per rank: its position in fix_jacobian and its ParallelSection
  geometry,   \* Geometry: cell_type, bed_elevation and sea_level_elevation
  ice_thickness, \* the ice thickness remove_narrow_tongues updates
  bc,         \* the solver assembling a 3D system and its Dirichlet nodes
  dms,        \* the DMs of the multigrid hierarchy and what is composed with each
  hook_ierr,  \* the PetscErrorCode the hooks of the hierarchy returned last
  padding     \* calls of pad: N, n_levels and what each call came to

vars == <<grid, pts, visited, ncalls, width, da, owned,
          dir, elem, J, todo, x_global, r_global, x_nodal, op, pc,
          P, level, pass, K, work, m_grid_info,
          m_x, m_solution, snes, section, geometry, ice_thickness,
          bc, dms, hook_ierr, padding>>

(***************************************************************************)
(* Bounds of the model.                                                    *)
(***************************************************************************)
MaxMx == 3
MaxMy == 3
MaxWidth == 1
MaxProcs == 2
MaxLevels == 2
DirMx == 3
DirMy == 2
MaxDirichlet == 1
NtMx == 4
NtMy == 3
MaxIceFree == 1
MaxPasses == 2
MaxCoarsen == 2
CoarseM == 4

(***************************************************************************)
(* Periodicity (IceGrid.hh).                                               *)
(***************************************************************************)
NOT_PERIODIC == 0
X_PERIODIC == 1
Y_PERIODIC == 2
XY_PERIODIC == 3

Periodicities == {NOT_PERIODIC, X_PERIODIC, Y_PERIODIC, XY_PERIODIC}

\* periodicity & X_PERIODIC, periodicity & Y_PERIODIC
PeriodicX(per) == per % 2 = 1
PeriodicY(per) == (per \div 2) % 2 = 1

Idle == "idle"

Range(s) == { s[n] : n \in 1..Len(s) }

(***************************************************************************)
(* Grids: global size Mx x My, this process owns                           *)
(* [xs, xs+xm) x [ys, ys+ym), at least one point in each direction.        *)
(***************************************************************************)
Grids ==
  { [Mx |-> Mx, My |-> My, xs |-> xs, xm |-> xm, ys |-> ys, ym |-> ym,
     periodicity |-> per] :
      Mx \in 1..MaxMx, My \in 1..MaxMy,
      xs \in 0..(MaxMx - 1), xm \in 1..MaxMx,
      ys \in 0..(MaxMy - 1), ym \in 1..MaxMy,
      per \in Periodicities }

ValidGrid(g) == g.xs + g.xm <= g.Mx /\ g.ys + g.ym <= g.My

(***************************************************************************)
(* PointsWithGhosts and Points.                                            *)
(***************************************************************************)
\* The alternative constructor clips the halo at the edge of the domain.
PointsWithGhostsClipped(g, stencil_width) ==
  LET lo(a) == IF a < 0 THEN 0 ELSE a
      hi(a, M) == IF a > M - 1 THEN M - 1 ELSE a
  IN [m_i_first |-> lo(g.xs - stencil_width),
      m_i_last  |-> hi(g.xs + g.xm + stencil_width - 1, g.Mx),
      m_j_first |-> lo(g.ys - stencil_width),
      m_j_last  |-> hi(g.ys + g.ym + stencil_width - 1, g.My),
      m_i       |-> lo(g.xs - stencil_width),
      m_j       |-> lo(g.ys - stencil_width),
      m_done    |-> FALSE]

PointsWithGhosts(g, stencil_width) ==
  [m_i_first |-> g.xs - stencil_width,
   m_i_last  |-> g.xs + g.xm + stencil_width - 1,
   m_j_first |-> g.ys - stencil_width,
   m_j_last  |-> g.ys + g.ym + stencil_width - 1,
   m_i       |-> g.xs - stencil_width,
   m_j       |-> g.ys - stencil_width,
   m_done    |-> FALSE]

Points(g) == PointsWithGhosts(g, 0)

\* The alternative next() advances i first.
nextIFirst(p) ==
  LET i1 == p.m_i + 1
      wrap == i1 > p.m_i_last
      i2 == IF wrap THEN p.m_i_first ELSE i1
      j2 == IF wrap THEN p.m_j + 1 ELSE p.m_j
      done == j2 > p.m_j_last
  IN [p EXCEPT !.m_i = i2,
               !.m_j = IF done THEN p.m_j_first ELSE j2,
               !.m_done = done]

next(p) ==
  LET j1 == p.m_j + 1
      wrap == j1 > p.m_j_last
      j2 == IF wrap THEN p.m_j_first ELSE j1
      i2 == IF wrap THEN p.m_i + 1 ELSE p.m_i
      done == i2 > p.m_i_last
  IN [p EXCEPT !.m_j = j2,
               !.m_i = IF done THEN p.m_i_first ELSE i2,
               !.m_done = done]

\* operator bool()
Valid(p) == p.m_done = FALSE

\* The whole loop `for (Points p(grid); p; p.next())`, collecting (i, j).
RECURSIVE RunLoop(_, _)
RunLoop(p, acc) ==
  IF Valid(p) THEN RunLoop(next(p), Append(acc, <<p.m_i, p.m_j>>)) ELSE acc

(***************************************************************************)
(* pad(N, n_levels) and the padded decomposition of Poisson3::setup.       *)
(***************************************************************************)
\* The width of int.
IntBits == 32

TwoTo30 == 2 ^ (IntBits - 2)
INT_MAX == (TwoTo30 - 1) + TwoTo30
INT_MIN == (0 - TwoTo30) - TwoTo30

\* a + b in int: <<the sum in two's complement, whether it overflowed>>.
AddInt(a, b) ==
  IF b > 0 /\ a > INT_MAX - b
    THEN <<((a - TwoTo30) - TwoTo30) + ((b - TwoTo30) - TwoTo30), TRUE>>
  ELSE IF b < 0 /\ a < INT_MIN - b
    THEN <<((a + TwoTo30) + TwoTo30) + ((b + TwoTo30) + TwoTo30), TRUE>>
  ELSE <<a + b, FALSE>>

\* a - b in int.
SubInt(a, b) ==
  IF b = INT_MIN
    THEN LET t == AddInt(a, INT_MAX)
             u == AddInt(t[1], 1)
         IN <<u[1], a >= 0>>
    ELSE AddInt(a, 0 - b)

\* c * k in int, by repeated addition where the product can leave the
\* range of int.
RECURSIVE MulInt(_, _)
MulInt(c, k) ==
  LET small == (0 - 2 ^ (IntBits \div 2 - 1))..(2 ^ (IntBits \div 2 - 1))
  IN IF c \in small /\ k \in small THEN <<c * k, FALSE>>
     ELSE IF k = 0 THEN <<0, FALSE>>
     ELSE IF k > 0
       THEN LET m == MulInt(c, k - 1)
                t == AddInt(m[1], c)
            IN <<t[1], m[2] \/ t[2]>>
       ELSE LET m == MulInt(c, k + 1)
                t == SubInt(m[1], c)
            IN <<t[1], m[2] \/ t[2]>>

\* The alternative loop halves k without rounding up.
RECURSIVE PadLoopRoundsDown(_, _, _, _, _)
PadLoopRoundsDown(k, C, n, n_levels, overflow) ==
  IF n < n_levels /\ k \in Int /\ C \in Int /\ overflow \in BOOLEAN
    THEN LET d == AddInt(C, C)
         IN PadLoopRoundsDown(k \div 2, d[1], n + 1, n_levels, overflow \/ d[2])
    ELSE <<k, C, overflow>>

\* for (n = 0; n < n_levels; ++n) { C *= 2; k = (k % 2 ? k + 1 : k) / 2; }
\* gives <<k, C, whether C *= 2 overflowed>>; k + 1 is even where it is
\* halved, so that the division is exact for a negative k as well.  (The
\* tests on k, C and overflow make TLC evaluate them in every iteration.)
RECURSIVE PadLoop(_, _, _, _, _)
PadLoop(k, C, n, n_levels, overflow) ==
  IF n < n_levels /\ k \in Int /\ C \in Int /\ overflow \in BOOLEAN
    THEN LET d == AddInt(C, C)
         IN PadLoop((IF k % 2 # 0 THEN k + 1 ELSE k) \div 2, d[1],
                    n + 1, n_levels, overflow \/ d[2])
    ELSE <<k, C, overflow>>

\* pad in int arithmetic: the value returned where signed overflow wraps,
\* and whether a signed overflow happened on the way.
PadRun(N, n_levels) ==
  LET k == SubInt(N, 1)
      r == PadLoop(k[1], 1, 0, n_levels, FALSE)
      m == MulInt(r[2], r[1])
      a == AddInt(m[1], 1)
      v == SubInt(a[1], N)
  IN [value |-> v[1], overflow |-> k[2] \/ r[3] \/ m[2] \/ a[2] \/ v[2]]

pad(N, n_levels) == PadRun(N, n_levels).value

RECURSIVE SumTo(_, _)
SumTo(s, n) == IF n = 0 THEN 0 ELSE s[n] + SumTo(s, n - 1)

\* Ownership ranges of N processes along an axis of M points
\* (DMDAGetOwnershipRanges): every process owns at least one point.
OwnershipRanges(M, N) == { s \in [1..N -> 1..M] : SumTo(s, N) = M }

\* The grid distributed by IceGrid (the DM `pism_da`).
PismDAs ==
  UNION { { [Mx |-> Mx, My |-> My, Nx |-> Nx, Ny |-> Ny, lx |-> lx, ly |-> ly] :
              lx \in OwnershipRanges(Mx, Nx), ly \in OwnershipRanges(My, Ny) } :
          <<Mx, My, Nx, Ny>> \in (1..MaxMx) \X (1..MaxMy) \X (1..MaxProcs) \X (1..MaxProcs) }

\* The alternative setup enlarges the grid but forgets the ownership ranges.
setupNoRangePadding(pism_da, n_levels) ==
  [Mx |-> pism_da.Mx + pad(pism_da.Mx, n_levels),
   My |-> pism_da.My + pad(pism_da.My, n_levels),
   Nx |-> pism_da.Nx, Ny |-> pism_da.Ny,
   lx |-> pism_da.lx, ly |-> pism_da.ly,
   pad_x |-> pad(pism_da.Mx, n_levels), pad_y |-> pad(pism_da.My, n_levels),
   n_levels |-> n_levels]

\* The alternative setup pads at the lower edge: the first process of each
\* direction gets the new nodes.
setupPadFirst(pism_da, n_levels) ==
  LET pad_x == pad(pism_da.Mx, n_levels)
      pad_y == pad(pism_da.My, n_levels)
  IN [Mx |-> pism_da.Mx + pad_x,
      My |-> pism_da.My + pad_y,
      Nx |-> pism_da.Nx, Ny |-> pism_da.Ny,
      lx |-> [pism_da.lx EXCEPT ![1] = @ + pad_x],
      ly |-> [pism_da.ly EXCEPT ![1] = @ + pad_y],
      pad_x |-> pad_x, pad_y |-> pad_y,
      n_levels |-> n_levels]

\* Poisson3::setup: new_lx[Nx - 1] += pad_x; Mx += pad_x (the same in y).
setup(pism_da, n_levels) ==
  LET pad_x == pad(pism_da.Mx, n_levels)
      pad_y == pad(pism_da.My, n_levels)
  IN [Mx |-> pism_da.Mx + pad_x,
      My |-> pism_da.My + pad_y,
      Nx |-> pism_da.Nx, Ny |-> pism_da.Ny,
      lx |-> [pism_da.lx EXCEPT ![pism_da.Nx] = @ + pad_x],
      ly |-> [pism_da.ly EXCEPT ![pism_da.Ny] = @ + pad_y],
      pad_x |-> pad_x, pad_y |-> pad_y,
      n_levels |-> n_levels]

Ranks(d) == (1..d.Nx) \X (1..d.Ny)

\* DMDAGetLocalInfo of rank r: the owned range follows the ownership ranges.
LocalInfo(d, r) ==
  [Mx |-> d.Mx, My |-> d.My,
   xs |-> SumTo(d.lx, r[1] - 1), xm |-> d.lx[r[1]],
   ys |-> SumTo(d.ly, r[2] - 1), ym |-> d.ly[r[2]],
   periodicity |-> NOT_PERIODIC]

(***************************************************************************)
(* SpecPoints: one process runs a loop over its points, with or without    *)
(* ghosts.                                                                 *)
(***************************************************************************)
dvars == <<dir, elem, J, todo, x_global, r_global, x_nodal, op, pc>>

nvars == <<P, level, pass>>

\* The variables of the components added last.
svars == <<m_x, m_solution, snes>>

hvars == <<dms, hook_ierr, padding>>

IdleHooks == dms = Idle /\ hook_ierr = Idle /\ padding = Idle

xvars == <<geometry, ice_thickness, bc, hvars>>

IdleExt == geometry = Idle /\ ice_thickness = Idle /\ bc = Idle /\ IdleHooks

yvars == <<m_grid_info, svars, section, xvars>>

IdleSolve == m_x = Idle /\ m_solution = Idle /\ snes = Idle /\ IdleExt

IdleRest == m_grid_info = Idle /\ IdleSolve /\ section = Idle

kvars == <<K, work, yvars>>

IdleBlatter == K = Idle /\ work = Idle /\ IdleRest

IdleNodeType == P = Idle /\ level = 0 /\ pass = 0
IdleDecomp == da = Idle /\ owned = Idle
IdleIter == pts = Idle /\ visited = Idle /\ ncalls = 0 /\ width = 0
IdlePoints == grid = Idle /\ IdleIter
IdleDirichlet ==
  /\ dir = Idle /\ elem = Idle /\ J = Idle /\ todo = Idle
  /\ x_global = Idle /\ r_global = Idle /\ x_nodal = Idle /\ op = Idle
  /\ pc = Idle

InitPoints ==
  /\ grid \in { g \in Grids : ValidGrid(g) }
  /\ width \in 0..MaxWidth
  /\ pts = PointsWithGhosts(grid, width)
  /\ visited = <<>>
  /\ ncalls = 0
  /\ IdleDecomp
  /\ IdleDirichlet
  /\ IdleNodeType
  /\ IdleBlatter

\* One pass of `for (PointsWithGhosts p(grid, w); p; p.next()) { body }`.
LoopStep ==
  /\ Valid(pts)
  /\ visited' = Append(visited, <<pts.m_i, pts.m_j>>)
  /\ pts' = next(pts)
  /\ ncalls' = ncalls + 1
  /\ UNCHANGED kvars
  /\ UNCHANGED <<grid, width, da, owned>>
  /\ UNCHANGED dvars
  /\ UNCHANGED nvars

NextPoints == LoopStep

SpecPoints == InitPoints /\ [][NextPoints]_vars

(***************************************************************************)
(* SpecDecomp: every rank of the padded decomposition runs its owned-only  *)
(* loop.                                                                   *)
(***************************************************************************)
InitDecomp ==
  /\ \E pism_da \in PismDAs, n_levels \in 0..MaxLevels : da = setup(pism_da, n_levels)
  /\ owned = [r \in Ranks(da) |-> <<>>]
  /\ IdlePoints
  /\ IdleDirichlet
  /\ IdleNodeType
  /\ IdleBlatter

\* Rank r runs `for (Points p(grid); p; p.next())` to the end.
RankLoop(r) ==
  /\ owned[r] = <<>>
  /\ owned' = [owned EXCEPT ![r] = RunLoop(Points(LocalInfo(da, r)), <<>>)]
  /\ UNCHANGED kvars
  /\ UNCHANGED <<grid, pts, visited, ncalls, width, da>>
  /\ UNCHANGED dvars
  /\ UNCHANGED nvars

NextDecomp == \E r \in Ranks(da) : RankLoop(r)

SpecDecomp == InitDecomp /\ [][NextDecomp]_vars

(***************************************************************************)
(* FEM tools (FETools.cc): ElementIterator, Element, DirichletData.        *)
(* A field is a function on the nodes of the grid; a ghost value is the    *)
(* value of the node the ghost point wraps to on a periodic axis.  A       *)
(* nodal value is a tuple of `dof` numbers (dof = 1: scalar, dof = 2:      *)
(* Vector2).                                                               *)
(***************************************************************************)
q1_n_chi == 4
m_i_offset == <<0, 1, 1, 0>>
m_j_offset == <<0, 0, 1, 1>>

\* Element::m_invalid_dof (declared in FETools.hh): a negative index that is
\* outside of every ghosted range.
m_invalid_dof == 0 - 268435456

Nodes(g) == (0..(g.Mx - 1)) \X (0..(g.My - 1))

Min2(a, b) == IF a < b THEN a ELSE b

\* The node a (possibly ghost) index pair refers to.
Wrap(g, i, j) == <<i % g.Mx, j % g.My>>

\* ElementIterator::ElementIterator: the range of elements, ghost elements
\* included, clipped at the edge of the domain on a non-periodic axis.
ElementIterator(g) ==
  LET perx == PeriodicX(g.periodicity)
      pery == PeriodicY(g.periodicity)
      xs0 == g.xs - 1
      xf0 == g.xs + g.xm - 1
      ys0 == g.ys - 1
      yf0 == g.ys + g.ym - 1
      xs1 == IF ~perx /\ xs0 < 0 THEN 0 ELSE xs0
      xf1 == IF ~perx /\ xf0 > g.Mx - 2 THEN g.Mx - 2 ELSE xf0
      ys1 == IF ~pery /\ ys0 < 0 THEN 0 ELSE ys0
      yf1 == IF ~pery /\ yf0 > g.My - 2 THEN g.My - 2 ELSE yf0
  IN [xs |-> xs1, xm |-> xf1 - xs1 + 1, ys |-> ys1, ym |-> yf1 - ys1 + 1]

\* The elements of the loop
\*   for (j = ys; j < ys + ym; j++) for (i = xs; i < xs + xm; i++)
ElementSeq(g) ==
  LET it == ElementIterator(g)
      n == IF it.xm > 0 /\ it.ym > 0 THEN it.xm * it.ym ELSE 0
  IN [e \in 1..n |-> <<it.xs + ((e - 1) % it.xm), it.ys + ((e - 1) \div it.xm)>>]

\* Element::mark_row_invalid, Element::mark_col_invalid
mark_row_invalid(e, k) ==
  [e EXCEPT !.m_row[k] = [i |-> m_invalid_dof, j |-> m_invalid_dof, k |-> 1]]

mark_col_invalid(e, k) ==
  [e EXCEPT !.m_col[k] = [i |-> m_invalid_dof, j |-> m_invalid_dof, k |-> 1]]

RECURSIVE MarkRowsNotOwned(_, _, _)
MarkRowsNotOwned(g, e, k) ==
  IF k > q1_n_chi THEN e
  ELSE LET pism_i == e.m_row[k].i
           pism_j == e.m_row[k].j
           outside == \/ pism_i < g.xs \/ g.xs + g.xm - 1 < pism_i
                      \/ pism_j < g.ys \/ g.ys + g.ym - 1 < pism_j
       IN MarkRowsNotOwned(g, IF outside THEN mark_row_invalid(e, k) ELSE e, k + 1)

\* The alternative reset leaves the rows of nodes outside of the owned range
\* valid.
resetKeepGhostRows(g, i, j) ==
  LET st == [k \in 1..q1_n_chi |->
               [i |-> i + m_i_offset[k], j |-> j + m_j_offset[k], k |-> 0]]
  IN [m_i |-> i, m_j |-> j, m_row |-> st, m_col |-> st]

\* Element::reset(i, j) of an element of the grid g
reset(g, i, j) ==
  LET st == [k \in 1..q1_n_chi |->
               [i |-> i + m_i_offset[k], j |-> j + m_j_offset[k], k |-> 0]]
  IN MarkRowsNotOwned(g, [m_i |-> i, m_j |-> j, m_row |-> st, m_col |-> st], 1)

\* Element::local_to_global(k, i, j)
local_to_global(e, k) == <<e.m_i + m_i_offset[k], e.m_j + m_j_offset[k]>>

\* Element::nodal_values(x_global, result)
nodal_values(g, e, field) ==
  [k \in 1..q1_n_chi |->
     field[Wrap(g, e.m_i + m_i_offset[k], e.m_j + m_j_offset[k])]]

RECURSIVE ConstrainLoop(_, _, _, _)
ConstrainLoop(e, m_indices_e, k, cols) ==
  IF k > q1_n_chi THEN e
  ELSE IF m_indices_e[k] = 1
         THEN ConstrainLoop(IF cols THEN mark_col_invalid(mark_row_invalid(e, k), k)
                                    ELSE mark_row_invalid(e, k),
                            m_indices_e, k + 1, cols)
         ELSE ConstrainLoop(e, m_indices_e, k + 1, cols)

\* The alternative constrain marks the rows but forgets the columns.
constrainRowsOnly(g, d, e) == ConstrainLoop(e, nodal_values(g, e, d.m_indices), 1, FALSE)

\* DirichletData::constrain(element)
constrain(g, d, e) == ConstrainLoop(e, nodal_values(g, e, d.m_indices), 1, TRUE)

\* Tuples of numbers: nodal values (length dof) and matrix blocks (length
\* dof*dof, row-major).
ZeroTuple(n) == [c \in 1..n |-> 0]
TupleAdd(a, b) == [c \in 1..Len(a) |-> a[c] + b[c]]
TupleSub(a, b) == [c \in 1..Len(a) |-> a[c] - b[c]]
TupleScale(w, a) == [c \in 1..Len(a) |-> w * a[c]]

\* {weight} and {weight, 0, 0, weight}
IdentityBlock(dof, weight) ==
  [c \in 1..(dof * dof) |->
     IF (c - 1) \div dof = (c - 1) % dof THEN weight ELSE 0]

\* MatSetValuesBlockedStencil ignores an index that is negative relative to
\* the start of the ghosted range (stencil width 1).
StencilIgnored(g, st) == st.i < g.xs - 1 \/ st.j < g.ys - 1

\* MatSetValuesBlockedStencil(J, 4, m_row, 4, m_col, K, ADD_VALUES): the
\* block K[k][l] is added at (m_row[k], m_col[l]) unless one of the two is
\* ignored; n counts the pairs (k, l) in row-major order.
RECURSIVE MatSetValuesBlockedStencil(_, _, _, _, _)
MatSetValuesBlockedStencil(g, e, Kmat, Jmat, n) ==
  IF n > q1_n_chi * q1_n_chi THEN Jmat
  ELSE LET k == ((n - 1) \div q1_n_chi) + 1
           l == ((n - 1) % q1_n_chi) + 1
           row == e.m_row[k]
           col == e.m_col[l]
       IN IF StencilIgnored(g, row) \/ StencilIgnored(g, col)
            THEN MatSetValuesBlockedStencil(g, e, Kmat, Jmat, n + 1)
            ELSE MatSetValuesBlockedStencil(g, e, Kmat,
                   [Jmat EXCEPT ![<<Wrap(g, row.i, row.j), Wrap(g, col.i, col.j)>>] =
                                   TupleAdd(@, Kmat[k][l])],
                   n + 1)

\* Element::add_contribution(K, J)
add_contribution(g, e, Kmat, Jmat) == MatSetValuesBlockedStencil(g, e, Kmat, Jmat, 1)

\* The alternative enforce stores the prescribed values at every node of the
\* element.
enforceEveryNode(g, d, e, xn) ==
  [k \in 1..q1_n_chi |->
     LET ij == local_to_global(e, k)
     IN d.m_values[Wrap(g, ij[1], ij[2])]]

\* DirichletData_Scalar::enforce, DirichletData_Vector::enforce
enforce(g, d, e, xn) ==
  LET m_indices_e == nodal_values(g, e, d.m_indices)
  IN [k \in 1..q1_n_chi |->
        IF m_indices_e[k] = 1
          THEN LET ij == local_to_global(e, k)
               IN d.m_values[Wrap(g, ij[1], ij[2])]
          ELSE xn[k]]

\* DirichletData_Scalar::enforce_homogeneous,
\* DirichletData_Vector::enforce_homogeneous
enforce_homogeneous(g, d, e, xn) ==
  LET m_indices_e == nodal_values(g, e, d.m_indices)
  IN [k \in 1..q1_n_chi |->
        IF m_indices_e[k] = 1 THEN ZeroTuple(d.dof) ELSE xn[k]]

\* for (Points p(grid); p; p.next()) { if (m_indices(i, j) > 0.5) body }
\* where the body of `fix_residual` stores weight * (x - values) and the
\* body of `fix_residual_homogeneous` stores zero.
RECURSIVE FixResidualLoop(_, _, _, _, _, _)
FixResidualLoop(p, d, x, r, homogeneous, weight) ==
  IF ~Valid(p) THEN r
  ELSE LET ij == <<p.m_i, p.m_j>>
           val == IF homogeneous
                    THEN ZeroTuple(d.dof)
                    ELSE TupleScale(weight, TupleSub(x[ij], d.m_values[ij]))
       IN FixResidualLoop(next(p), d, x,
                          IF d.m_indices[ij] = 1 THEN [r EXCEPT ![ij] = val] ELSE r,
                          homogeneous, weight)

\* The alternative fix_residual forgets the weight.
fix_residual_unweighted(g, d, x, r) ==
  FixResidualLoop(Points(g), d, x, r, FALSE, 1)

\* DirichletData_{Scalar,Vector}::fix_residual(x_global, r_global)
fix_residual(g, d, x, r) ==
  FixResidualLoop(Points(g), d, x, r, FALSE, d.m_weight)

\* DirichletData_{Scalar,Vector}::fix_residual_homogeneous(r_global)
fix_residual_homogeneous(g, d, r) ==
  FixResidualLoop(Points(g), d, r, r, TRUE, d.m_weight)

\* for (Points p(grid); p; p.next()) { if (m_indices(i, j) > 0.5)
\*   MatSetValuesBlockedStencil(J, 1, &row, 1, &row, identity, ADD_VALUES) }
RECURSIVE FixJacobianLoop(_, _, _, _)
FixJacobianLoop(p, d, Jmat, identity) ==
  IF ~Valid(p) THEN Jmat
  ELSE LET ij == <<p.m_i, p.m_j>>
       IN FixJacobianLoop(next(p), d,
                          IF d.m_indices[ij] = 1
                            THEN [Jmat EXCEPT ![<<ij, ij>>] = TupleAdd(@, identity)]
                            ELSE Jmat,
                          identity)

\* The alternative fix_jacobian fills the whole block with the weight.
fix_jacobian_full_block(g, d, Jmat) ==
  FixJacobianLoop(Points(g), d, Jmat, [c \in 1..(d.dof * d.dof) |-> d.m_weight])

\* DirichletData_{Scalar,Vector}::fix_jacobian(J)
fix_jacobian(g, d, Jmat) ==
  FixJacobianLoop(Points(g), d, Jmat, IdentityBlock(d.dof, d.m_weight))

(***************************************************************************)
(* SpecDirichlet: the ranks of a decomposition zero the Jacobian, assemble *)
(* it element by element (reset, constrain, add_contribution),             *)
(* then fix the Jacobian and the residual at their Dirichlet nodes.        *)
(***************************************************************************)
DirDAs ==
  UNION { { [Mx |-> DirMx, My |-> DirMy, Nx |-> Nx, Ny |-> Ny,
             lx |-> lx, ly |-> ly, periodicity |-> per] :
              lx \in OwnershipRanges(DirMx, Nx), ly \in OwnershipRanges(DirMy, Ny),
              per \in Periodicities } :
          <<Nx, Ny>> \in { nn \in (1..Min2(MaxProcs, DirMx)) \X (1..Min2(MaxProcs, DirMy)) :
                              nn[1] * nn[2] <= MaxProcs } }

\* The IceGrid of rank r.
RankGrid(d, r) == [LocalInfo(d, r) EXCEPT !.periodicity = d.periodicity]

RankSeq(d) ==
  [n \in 1..(d.Nx * d.Ny) |-> <<((n - 1) % d.Nx) + 1, ((n - 1) \div d.Nx) + 1>>]

\* The element loops of all ranks, one after the other.
RECURSIVE AllElements(_, _)
AllElements(d, n) ==
  IF n > d.Nx * d.Ny THEN <<>>
  ELSE LET r == RankSeq(d)[n]
           es == ElementSeq(RankGrid(d, r))
       IN [e \in 1..Len(es) |-> <<r, es[e][1], es[e][2]>>] \o AllElements(d, n + 1)

\* The subsets of S with at most k elements.
RECURSIVE SubsetsUpTo(_, _)
SubsetsUpTo(S, k) ==
  IF k = 0 THEN {{}}
  ELSE LET smaller == SubsetsUpTo(S, k - 1)
       IN smaller \cup { T \cup {x} : T \in smaller, x \in S }

\* Bc mask fields: no Dirichlet node, or a row of at most MaxDirichlet
\* Dirichlet nodes next to each other along x.
Indicators(d) ==
  { [n \in Nodes(d) |-> IF n \in S THEN 1 ELSE 0] :
      S \in {{}} \cup
            { { m \in Nodes(d) : m[2] = s[2] /\ m[1] \in s[1]..(s[1] + len - 1) } :
                s \in Nodes(d), len \in 1..MaxDirichlet } }

Weights == {3}

\* The prescribed values, the iterate and the assembled residual.
ValuesField(d, dof) == [n \in Nodes(d) |-> [c \in 1..dof |-> 10 + 3 * n[1] + n[2] + c]]
IterateField(d, dof) == [n \in Nodes(d) |-> [c \in 1..dof |-> n[1] + 2 * n[2] + 4 * (c - 1)]]
ResidualField(d, dof) == [n \in Nodes(d) |-> [c \in 1..dof |-> 50 + n[1] + 5 * n[2] + c]]

\* A row-major element matrix of (4 dof) x (4 dof) positive entries, no two
\* alike, as blocks K[k][l].
ElementMatrix(dof) ==
  [k \in 1..q1_n_chi |-> [l \in 1..q1_n_chi |-> [c \in 1..(dof * dof) |->
     1 + ((k - 1) * dof + ((c - 1) \div dof)) * (q1_n_chi * dof)
       + (l - 1) * dof + ((c - 1) % dof)]]]

ZeroMatrix(d, dof) == [rc \in Nodes(d) \X Nodes(d) |-> ZeroTuple(dof * dof)]
StaleMatrix(d, dof) == [rc \in Nodes(d) \X Nodes(d) |-> [c \in 1..(dof * dof) |-> 7]]

\* The phase that follows when the work list of a phase is used up.
AfterPhase(phase) ==
  CASE phase = "assemble" -> "fix_jacobian"
    [] phase = "fix_jacobian" -> "fix_residual"
    [] OTHER -> "done"

InitDirichlet ==
  /\ da \in DirDAs
  /\ \E ind \in Indicators(da), dof \in 1..2, w \in Weights :
       /\ dir = [m_indices |-> ind, m_values |-> ValuesField(da, dof),
                 m_weight |-> w, dof |-> dof]
       /\ x_global = IterateField(da, dof)
       /\ r_global = ResidualField(da, dof)
       /\ J = StaleMatrix(da, dof)
       /\ x_nodal = [k \in 1..q1_n_chi |-> ZeroTuple(dof)]
  /\ grid = RankGrid(da, <<1, 1>>)
  /\ elem = reset(grid, 0, 0)
  /\ todo = AllElements(da, 1)
  /\ op = "init"
  /\ pc = "zero"
  /\ owned = Idle
  /\ IdleIter
  /\ IdleNodeType
  /\ IdleBlatter

\* MatZeroEntries(J)
ZeroEntries ==
  /\ pc = "zero"
  /\ J' = ZeroMatrix(da, dir.dof)
  /\ op' = "zero"
  /\ pc' = IF todo = <<>> THEN "fix_jacobian" ELSE "assemble"
  /\ todo' = IF todo = <<>> THEN RankSeq(da) ELSE todo
  /\ UNCHANGED kvars
  /\ UNCHANGED <<grid, pts, visited, ncalls, width, da, owned,
                 dir, elem, x_global, r_global, x_nodal>>
  /\ UNCHANGED nvars

\* A rank assembles its next element: element.reset(i, j);
\* dirichlet.constrain(element); element.add_contribution(K, J).
AssembleElement ==
  /\ pc = "assemble" /\ todo # <<>>
  /\ grid' = RankGrid(da, Head(todo)[1])
  /\ elem' = constrain(grid', dir, reset(grid', Head(todo)[2], Head(todo)[3]))
  /\ J' = add_contribution(grid', elem', ElementMatrix(dir.dof), J)
  /\ op' = "add_contribution"
  /\ pc' = IF Tail(todo) = <<>> THEN AfterPhase("assemble") ELSE "assemble"
  /\ todo' = IF Tail(todo) = <<>> THEN RankSeq(da) ELSE Tail(todo)
  /\ UNCHANGED kvars
  /\ UNCHANGED <<pts, visited, ncalls, width, da, owned,
                 dir, x_global, r_global, x_nodal>>
  /\ UNCHANGED nvars

\* The next rank calls dirichlet.fix_jacobian(J).
FixJacobian ==
  /\ pc = "fix_jacobian" /\ todo # <<>>
  /\ grid' = RankGrid(da, Head(todo))
  /\ J' = fix_jacobian(grid', dir, J)
  /\ op' = "fix_jacobian"
  /\ pc' = IF Tail(todo) = <<>> THEN AfterPhase("fix_jacobian") ELSE pc
  /\ todo' = IF Tail(todo) = <<>> THEN RankSeq(da) ELSE Tail(todo)
  /\ UNCHANGED kvars
  /\ UNCHANGED <<pts, visited, ncalls, width, da, owned,
                 dir, elem, x_global, r_global, x_nodal>>
  /\ UNCHANGED nvars

\* The next rank calls dirichlet.fix_residual(x_global, r_global); all ranks
\* call the same function.
FixResidual ==
  /\ pc = "fix_residual" /\ todo # <<>>
  /\ op # "fix_residual_homogeneous"
  /\ grid' = RankGrid(da, Head(todo))
  /\ r_global' = fix_residual(grid', dir, x_global, r_global)
  /\ op' = "fix_residual"
  /\ pc' = IF Tail(todo) = <<>> THEN AfterPhase("fix_residual") ELSE pc
  /\ todo' = Tail(todo)
  /\ UNCHANGED kvars
  /\ UNCHANGED <<pts, visited, ncalls, width, da, owned,
                 dir, elem, J, x_global, x_nodal>>
  /\ UNCHANGED nvars

\* The next rank calls dirichlet.fix_residual_homogeneous(r_global); all
\* ranks call the same function.
FixResidualHomogeneous ==
  /\ pc = "fix_residual" /\ todo # <<>>
  /\ op # "fix_residual"
  /\ grid' = RankGrid(da, Head(todo))
  /\ r_global' = fix_residual_homogeneous(grid', dir, r_global)
  /\ op' = "fix_residual_homogeneous"
  /\ pc' = IF Tail(todo) = <<>> THEN AfterPhase("fix_residual") ELSE pc
  /\ todo' = Tail(todo)
  /\ UNCHANGED kvars
  /\ UNCHANGED <<pts, visited, ncalls, width, da, owned,
                 dir, elem, J, x_global, x_nodal>>
  /\ UNCHANGED nvars

NextDirichlet ==
  \/ ZeroEntries
  \/ AssembleElement
  \/ FixJacobian
  \/ FixResidual
  \/ FixResidualHomogeneous

SpecDirichlet == InitDirichlet /\ [][NextDirichlet]_vars

(***************************************************************************)
(* SpecEnforce: a rank visits elements of its grid in any order; for each  *)
(* it fetches the nodal values of the iterate and enforces the Dirichlet   *)
(* values on them.                                                         *)
(***************************************************************************)
InitEnforce ==
  /\ da \in DirDAs
  /\ \E r \in Ranks(da) : grid = RankGrid(da, r)
  /\ \E ind \in Indicators(da), dof \in 1..2, w \in Weights :
       /\ dir = [m_indices |-> ind, m_values |-> ValuesField(da, dof),
                 m_weight |-> w, dof |-> dof]
       /\ x_global = IterateField(da, dof)
       /\ x_nodal = [k \in 1..q1_n_chi |-> ZeroTuple(dof)]
  /\ elem = reset(grid, 0, 0)
  /\ op = "init"
  /\ J = Idle /\ todo = Idle /\ r_global = Idle /\ pc = Idle
  /\ owned = Idle
  /\ IdleIter
  /\ IdleNodeType
  /\ IdleBlatter

\* element.reset(i, j); element.nodal_values(x_global, x_nodal)
ResetElement ==
  /\ op # "reset"
  /\ \E e \in Range(ElementSeq(grid)) : elem' = reset(grid, e[1], e[2])
  /\ x_nodal' = nodal_values(grid, elem', x_global)
  /\ op' = "reset"
  /\ UNCHANGED kvars
  /\ UNCHANGED <<grid, pts, visited, ncalls, width, da, owned,
                 dir, J, todo, x_global, r_global, pc>>
  /\ UNCHANGED nvars

\* dirichlet.enforce(element, x_nodal)
Enforce ==
  /\ op = "reset"
  /\ x_nodal' = enforce(grid, dir, elem, x_nodal)
  /\ op' = "enforce"
  /\ UNCHANGED kvars
  /\ UNCHANGED <<grid, pts, visited, ncalls, width, da, owned,
                 dir, elem, J, todo, x_global, r_global, pc>>
  /\ UNCHANGED nvars

\* dirichlet.enforce_homogeneous(element, x_nodal)
EnforceHomogeneous ==
  /\ op = "reset"
  /\ x_nodal' = enforce_homogeneous(grid, dir, elem, x_nodal)
  /\ op' = "enforce_homogeneous"
  /\ UNCHANGED kvars
  /\ UNCHANGED <<grid, pts, visited, ncalls, width, da, owned,
                 dir, elem, J, todo, x_global, r_global, pc>>
  /\ UNCHANGED nvars

NextEnforce ==
  \/ ResetElement
  \/ Enforce
  \/ EnforceHomogeneous

SpecEnforce == InitEnforce /\ [][NextEnforce]_vars

(***************************************************************************)
(* Node classification (Poisson3.cc).  Thickness is counted in units of    *)
(* min_thickness / 4^MaxCoarsen, so that min_thickness (0.1), the step     *)
(* function H (0 or 1) and everything MaxCoarsen restrictions make of it   *)
(* are integers.                                                           *)
(***************************************************************************)
\* NodeType (node_types.hh), stored as a double in Parameters::node_type
NODE_INTERIOR == 0 - 1
NODE_BOUNDARY == 0
NODE_EXTERIOR == 1

\* double min_thickness = 0.1
min_thickness == 4 ^ MaxCoarsen

\* thickness 1.0
thickness_one == 10 * min_thickness

\* The alternative local info has no ghost nodes (stencil width 0).
GhostedInfoNoHalo(d, r) ==
  LET info == LocalInfo(d, r)
  IN [mx |-> d.Mx, my |-> d.My,
      xs |-> info.xs, xm |-> info.xm, ys |-> info.ys, ym |-> info.ym,
      gxs |-> info.xs, gxm |-> info.xm, gys |-> info.ys, gym |-> info.ym]

\* DMDAGetLocalInfo of a DMDA with DM_BOUNDARY_NONE and stencil width 1:
\* the ghosted range is the owned range widened by one node, inside the grid.
GhostedInfo(d, r) ==
  LET info == LocalInfo(d, r)
      gxs == IF info.xs - 1 < 0 THEN 0 ELSE info.xs - 1
      gys == IF info.ys - 1 < 0 THEN 0 ELSE info.ys - 1
      gxe == IF info.xs + info.xm + 1 > d.Mx THEN d.Mx ELSE info.xs + info.xm + 1
      gye == IF info.ys + info.ym + 1 > d.My THEN d.My ELSE info.ys + info.ym + 1
  IN [mx |-> d.Mx, my |-> d.My,
      xs |-> info.xs, xm |-> info.xm, ys |-> info.ys, ym |-> info.ym,
      gxs |-> gxs, gxm |-> gxe - gxs, gys |-> gys, gym |-> gye - gys]

OwnedNodes(info) ==
  (info.xs..(info.xs + info.xm - 1)) \X (info.ys..(info.ys + info.ym - 1))

GhostedNodes(info) ==
  (info.gxs..(info.gxs + info.gxm - 1)) \X (info.gys..(info.gys + info.gym - 1))

\* The nodes of the element (i, j): E.reset(i, j); E.local_to_global(k, ii, jj)
ElementNodes(i, j) == [k \in 1..q1_n_chi |-> <<i + m_i_offset[k], j + m_j_offset[k]>>]

\* An element contains ice if no node has thickness < min_thickness.
Interior(Pl, i, j, min_thick) ==
  \A k \in 1..q1_n_chi : ~(Pl[ElementNodes(i, j)[k]].thickness < min_thick)

\* The elements (i, j) of the loop
\*   for (j = gys; j < gys + gym - 1; j++) for (i = gxs; i < gxs + gxm - 1; i++)
ElementRange(info) ==
  (info.gxs..(info.gxs + info.gxm - 2)) \X (info.gys..(info.gys + info.gym - 2))

\* The loop over the elements: P[jj][ii].node_type += interior for the four
\* nodes (ii, jj) of each element.  The loop does not change the thickness,
\* so a node ends up with one increment per icy element of the loop that it
\* is a node of; the offsets being 0 or 1, these are among the elements
\* (n[1] - 1 .. n[1], n[2] - 1 .. n[2]).
ElementLoop(info, Pl, min_thick) ==
  [n \in DOMAIN Pl |->
     [Pl[n] EXCEPT !.node_type =
        @ + Cardinality({ e \in ElementRange(info) \cap
                                  (((n[1] - 1)..n[1]) \X ((n[2] - 1)..n[2])) :
                            /\ \E k \in 1..q1_n_chi : ElementNodes(e[1], e[2])[k] = n
                            /\ Interior(Pl, e[1], e[2], min_thick) })]]

\* The alternative switch calls a node with at least three icy elements
\* interior.
NodeTypeOfCountThree(count) ==
  CASE count >= 3 -> NODE_INTERIOR
    [] count = 0 -> NODE_EXTERIOR
    [] OTHER -> NODE_BOUNDARY

\* switch ((int)P[j][i].node_type)
NodeTypeOfCount(count) ==
  CASE count = 4 -> NODE_INTERIOR
    [] count = 0 -> NODE_EXTERIOR
    [] OTHER -> NODE_BOUNDARY

\* The ghosted copy of the parameters, with the owned node types reset to 0
\* if `zeroed` is set, after the loop over the elements.
CountIcyElements(info, Pg, min_thick, zeroed) ==
  LET P0 == [n \in GhostedNodes(info) |->
               IF zeroed /\ n \in OwnedNodes(info)
                 THEN [Pg[n] EXCEPT !.node_type = 0] ELSE Pg[n]]
  IN ElementLoop(info, P0, min_thick)

\* The loop over the owned nodes that turns the counts of the ghosted copy
\* Pl into node types of the storage Pg.
StoreNodeTypes(info, Pg, Pl) ==
  [n \in DOMAIN Pg |->
     IF n \in OwnedNodes(info)
       THEN [Pg[n] EXCEPT !.node_type = NodeTypeOfCount(Pl[n].node_type)]
       ELSE Pg[n]]

\* The alternative compute_node_type does not reset the node type of the
\* owned nodes before it counts.
compute_node_type_no_reset(info, Pg, min_thick) ==
  StoreNodeTypes(info, Pg, CountIcyElements(info, Pg, min_thick, FALSE))

\* compute_node_type(da, min_thickness) on the rank with the local info
\* `info`; Pg is the global storage of the 2D parameters.
compute_node_type(info, Pg, min_thick) ==
  StoreNodeTypes(info, Pg, CountIcyElements(info, Pg, min_thick, TRUE))

(***************************************************************************)
(* SpecNodeType: the ranks of a decomposition compute the node types of    *)
(* one level, rank after rank, MaxPasses times with the same thickness.    *)
(***************************************************************************)
NtDAs ==
  UNION { { [Mx |-> NtMx, My |-> NtMy, Nx |-> Nx, Ny |-> Ny, lx |-> lx, ly |-> ly] :
              lx \in OwnershipRanges(NtMx, Nx), ly \in OwnershipRanges(NtMy, Ny) } :
          <<Nx, Ny>> \in (1..Min2(MaxProcs, NtMx)) \X (1..Min2(MaxProcs, NtMy)) }

\* Thickness fields with at most MaxIceFree ice-free nodes.
ThicknessFields(d) ==
  { [n \in Nodes(d) |-> IF n \in S THEN 0 ELSE thickness_one] :
      S \in SubsetsUpTo(Nodes(d), MaxIceFree) }

\* What the storage holds in node_type before the first classification.
StaleNodeTypes == {0, 4}

InitNodeType ==
  /\ da \in NtDAs
  /\ \E H \in ThicknessFields(da), stale \in StaleNodeTypes :
       P = [n \in Nodes(da) |-> [thickness |-> H[n], node_type |-> stale]]
  /\ level = 0
  /\ pass = 1
  /\ todo = RankSeq(da)
  /\ op = "init"
  /\ grid = Idle /\ owned = Idle /\ IdleIter
  /\ dir = Idle /\ elem = Idle /\ J = Idle
  /\ x_global = Idle /\ r_global = Idle /\ x_nodal = Idle /\ pc = Idle
  /\ IdleBlatter

\* The next rank calls compute_node_type(da, min_thickness).
ComputeNodeType ==
  /\ todo # <<>>
  /\ P' = compute_node_type(GhostedInfo(da, Head(todo)), P, min_thickness)
  /\ owned' = Head(todo)
  /\ op' = "compute_node_type"
  /\ IF Tail(todo) = <<>> /\ pass < MaxPasses
       THEN todo' = RankSeq(da) /\ pass' = pass + 1
       ELSE todo' = Tail(todo) /\ pass' = pass
  /\ UNCHANGED kvars
  /\ UNCHANGED <<grid, pts, visited, ncalls, width, da,
                 dir, elem, J, x_global, r_global, x_nodal, pc, level>>

NextNodeType == ComputeNodeType

SpecNodeType == InitNodeType /\ [][NextNodeType]_vars

(***************************************************************************)
(* SpecThreshold: as SpecNodeType, for thickness fields that have one node *)
(* exactly min_thickness thick, or just below or above it.                 *)
(***************************************************************************)
ThresholdFields(d) ==
  { [n \in Nodes(d) |-> IF n = m THEN thin ELSE thickness_one] :
      m \in Nodes(d), thin \in {min_thickness - 1, min_thickness, min_thickness + 1} }

InitThreshold ==
  /\ da \in NtDAs
  /\ \E Hf \in ThresholdFields(da), stale \in StaleNodeTypes :
       P = [n \in Nodes(da) |-> [thickness |-> Hf[n], node_type |-> stale]]
  /\ level = 0
  /\ pass = 1
  /\ todo = RankSeq(da)
  /\ op = "init"
  /\ grid = Idle /\ owned = Idle /\ IdleIter
  /\ dir = Idle /\ elem = Idle /\ J = Idle
  /\ x_global = Idle /\ r_global = Idle /\ x_nodal = Idle /\ pc = Idle
  /\ IdleBlatter

SpecThreshold == InitThreshold /\ [][NextNodeType]_vars

(***************************************************************************)
(* SpecCoarse: Poisson3 on one process.  setup pads the grid, then         *)
(* init_2d_parameters sets the step-function thickness on the finest level *)
(* and classifies its nodes, and the restriction hook carries the 2D       *)
(* parameters to the next coarser level and classifies the nodes there.    *)
(***************************************************************************)
\* The half-widths Lx, Ly of the domain of the IceGrid.
HalfWidths == {1, 2}

Abs(a) == IF a < 0 THEN 0 - a ELSE a

\* fabs(x) <= w with w = 1.0, for the node i of the finest level of an axis
\* with M0 nodes over [-L, L]: x = x_min + i * dx, x_min = -L,
\* dx = 2 L / (M0 - 1).
InsideStep(L, M0, i) == L * Abs(2 * i - (M0 - 1)) <= M0 - 1

\* Domain thickness H(x, y) at the node (i, j) of the finest level
H(g, i, j) ==
  IF InsideStep(g.Lx, g.Mx, i) /\ InsideStep(g.Ly, g.My, j)
    THEN thickness_one ELSE 0

\* The interpolation of DMCreateInterpolation(da_coarse, da_fine) between
\* DMDAs refined by two gives the fine node 2 I the value of the coarse
\* node I and the fine node 2 I + 1 the mean of I and I + 1.  This is twice
\* the weight of the fine node i = 2 I + a in the coarse node I.
TwiceWeight(a) == IF a = 0 THEN 2 ELSE 1

\* MatRestrict(mat, X_fine, X_coarse): the transpose of the interpolation
\* applied to one field of the fine level, at the coarse node (ci, cj); n
\* counts the nine fine nodes around (2 ci, 2 cj), and the result is four
\* times the restricted value.
RECURSIVE RestrictedTimesFour(_, _, _, _, _)
RestrictedTimesFour(d, field, ci, cj, n) ==
  IF n >= 9 THEN 0
  ELSE LET a == (n % 3) - 1
           b == (n \div 3) - 1
           i == 2 * ci + a
           j == 2 * cj + b
           rest == RestrictedTimesFour(d, field, ci, cj, n + 1)
       IN IF i \in 0..(d.Mx - 1) /\ j \in 0..(d.My - 1)
            THEN TwiceWeight(a) * TwiceWeight(b) * field[<<i, j>>] + rest
            ELSE rest

Restricted(d, field, ci, cj) == RestrictedTimesFour(d, field, ci, cj, 0) \div 4

\* The DMDA of the next coarser level (DMCoarsen, one process).
Coarsen(d) ==
  [d EXCEPT !.Mx = ((d.Mx - 1) \div 2) + 1, !.My = ((d.My - 1) \div 2) + 1,
            !.lx = <<((d.Mx - 1) \div 2) + 1>>, !.ly = <<((d.My - 1) \div 2) + 1>>]

\* restrict_data(fine, coarse, "2D_DM"): every field of Parameters is
\* restricted, node_type included.
restrict_data(d, Pfine) ==
  LET thickness == [m \in Nodes(d) |-> Pfine[m].thickness]
      node_type == [m \in Nodes(d) |-> Pfine[m].node_type]
  IN [n \in Nodes(Coarsen(d)) |->
        [thickness |-> Restricted(d, thickness, n[1], n[2]),
         node_type |-> Restricted(d, node_type, n[1], n[2])]]

InitCoarse ==
  /\ \E Mx0 \in 2..CoarseM, My0 \in 2..CoarseM, n_levels \in 1..MaxCoarsen :
       /\ \E Lx \in HalfWidths, Ly \in HalfWidths :
            grid = [Mx |-> Mx0, My |-> My0, Lx |-> Lx, Ly |-> Ly]
       /\ da = setup([Mx |-> Mx0, My |-> My0, Nx |-> 1, Ny |-> 1,
                      lx |-> <<Mx0>>, ly |-> <<My0>>], n_levels)
  /\ \E stale \in StaleNodeTypes :
       P = [n \in Nodes(da) |-> [thickness |-> 0, node_type |-> stale]]
  /\ level = 0
  /\ pass = 0
  /\ op = "setup"
  /\ owned = Idle /\ IdleIter
  /\ dir = Idle /\ elem = Idle /\ J = Idle /\ todo = Idle
  /\ x_global = Idle /\ r_global = Idle /\ x_nodal = Idle /\ pc = Idle
  /\ IdleBlatter

\* Poisson3::init_2d_parameters
Init2dParameters ==
  /\ op = "setup"
  /\ P' = compute_node_type(GhostedInfo(da, <<1, 1>>),
                            [n \in Nodes(da) |->
                               [P[n] EXCEPT !.thickness = H(grid, n[1], n[2])]],
                            min_thickness)
  /\ op' = "init_2d_parameters"
  /\ UNCHANGED kvars
  /\ UNCHANGED <<grid, pts, visited, ncalls, width, da, owned,
                 dir, elem, J, todo, x_global, r_global, x_nodal, pc, level, pass>>

\* p3_restriction_hook(fine, coarse): restrict_data, then compute_node_type
\* on the coarse level.
RestrictionHook ==
  /\ op # "setup"
  /\ level < da.n_levels
  /\ da' = Coarsen(da)
  /\ P' = compute_node_type(GhostedInfo(da', <<1, 1>>), restrict_data(da, P),
                            min_thickness)
  /\ level' = level + 1
  /\ op' = "p3_restriction_hook"
  /\ UNCHANGED kvars
  /\ UNCHANGED <<grid, pts, visited, ncalls, width, owned,
                 dir, elem, J, todo, x_global, r_global, x_nodal, pc, pass>>

NextCoarse ==
  \/ Init2dParameters
  \/ RestrictionHook

SpecCoarse == InitCoarse /\ [][NextCoarse]_vars

(***************************************************************************)
(* SpecBlatterK: the element Jacobian of Blatter::compute_jacobian.  For   *)
(* one element, K is zeroed, jacobian_f adds the upper-triangular blocks   *)
(* of the main part, jacobian_basal adds the sliding term if the element   *)
(* is at the base (k == 0), the lower-triangular blocks are filled in and  *)
(* K is handed to add_contribution.                                        *)
(*                                                                         *)
(* K is an array of doubles.  A double is modelled by an integer with at   *)
(* most MantissaBits significant bits, and every product and sum is        *)
(* rounded to the nearest such number, ties to even, as the arithmetic of  *)
(* doubles does with 53 bits.                                              *)
(***************************************************************************)
\* The number of significant bits of a number (53 for a double).
MantissaBits == 3

\* The largest number of quadrature points of an element and of a face.
MaxPts == 2

\* fem::q13d::n_chi, the number of nodes of an element: K is K[16][16].
q13d_n_chi == 8

RECURSIVE BitLength(_)
BitLength(n) == IF n = 0 THEN 0 ELSE 1 + BitLength(n \div 2)

\* The number with MantissaBits significant bits nearest to x, ties to even
RoundToNearest(x) ==
  LET a == Abs(x)
      e == BitLength(a) - MantissaBits
  IN IF e <= 0 THEN x
     ELSE LET m == a \div (2 ^ e)
              r == a % (2 ^ e)
              h == 2 ^ (e - 1)
              up == r > h \/ (r = h /\ m % 2 = 1)
              n == (IF up THEN m + 1 ELSE m) * (2 ^ e)
          IN IF x < 0 THEN 0 - n ELSE n

\* a * b and a + b of doubles
Mul(a, b) == RoundToNearest(a * b)

Add(a, b) == RoundToNearest(a + b)

\* 0.5 * a, which is exact; the model applies it to even numbers only
Half(a) == a \div 2

KIndices == (0..(2 * q13d_n_chi - 1)) \X (0..(2 * q13d_n_chi - 1))

\* memset(K, 0, sizeof(K))
memset == [rc \in KIndices |-> 0]

\* K[t * 2 + a][s * 2 + b] after the quadrature points 1..q of jacobian_f
\* if it was k0 before; the loop over s starts at t, so that the blocks
\* with s < t are left alone.
RECURSIVE JacobianFEntry(_, _, _, _, _, _, _, _)
JacobianFEntry(element, wk, k0, t, a, s, b, q) ==
  IF q = 0 \/ s < t THEN k0
  ELSE
    LET before == JacobianFEntry(element, wk, k0, t, a, s, b, q - 1)
        W == element.weight[q]
        ux == wk.u_x[q].u
        uy == wk.u_y[q].u
        uz == wk.u_z[q].u
        vx == wk.u_x[q].v
        vy == wk.u_y[q].v
        vz == wk.u_z[q].v
        eta == wk.eta[q]
        deta == wk.deta[q]
        psi == element.chi[<<q, t>>]
        phi == element.chi[<<q, s>>]
        gamma_u == Add(Add(Add(Mul(Mul(2, ux), phi.dx), Mul(vy, phi.dx)),
                           Mul(Half(phi.dy), Add(uy, vx))),
                       Mul(Half(uz), phi.dz))
        gamma_v == Add(Add(Add(Mul(Mul(2, vy), phi.dy), Mul(ux, phi.dy)),
                           Mul(Half(phi.dx), Add(uy, vx))),
                       Mul(Half(vz), phi.dz))
        eta_u == Mul(deta, gamma_u)
        eta_v == Mul(deta, gamma_v)
        \* Picard part
        picard ==
          IF a = 0 /\ b = 0
            THEN Add(Add(Mul(Mul(4, psi.dx), phi.dx), Mul(psi.dy, phi.dy)),
                     Mul(psi.dz, phi.dz))
          ELSE IF a = 0 /\ b = 1
            THEN Add(Mul(Mul(2, psi.dx), phi.dy), Mul(psi.dy, phi.dx))
          ELSE IF a = 1 /\ b = 0
            THEN Add(Mul(Mul(2, psi.dy), phi.dx), Mul(psi.dx, phi.dy))
          ELSE Add(Add(Mul(Mul(4, psi.dy), phi.dy), Mul(psi.dx, phi.dx)),
                   Mul(psi.dz, phi.dz))
        \* extra Newton terms
        newton ==
          IF a = 0
            THEN Add(Add(Mul(psi.dx, Add(Mul(4, ux), Mul(2, vy))),
                         Mul(psi.dy, Add(uy, vx))),
                     Mul(psi.dz, uz))
            ELSE Add(Add(Mul(psi.dx, Add(uy, vx)),
                         Mul(psi.dy, Add(Mul(4, vy), Mul(2, ux)))),
                     Mul(psi.dz, vz))
        withPicard == Add(before, Mul(Mul(W, eta), picard))
    IN Add(withPicard, Mul(Mul(W, IF b = 0 THEN eta_u ELSE eta_v), newton))

\* Blatter::jacobian_f(element, velocity, hardness, K)
jacobian_f(element, wk, Kin) ==
  [rc \in KIndices |->
     JacobianFEntry(element, wk, Kin[rc], rc[1] \div 2, rc[1] % 2,
                    rc[2] \div 2, rc[2] % 2, element.n_pts)]

\* K[t * 2 + a][s * 2 + b] after the quadrature points 1..q of
\* jacobian_basal if it was k0 before
RECURSIVE JacobianBasalEntry(_, _, _, _, _, _, _, _)
JacobianBasalEntry(face, wk, k0, t, a, s, b, q) ==
  IF q = 0 THEN k0
  ELSE
    LET before == JacobianBasalEntry(face, wk, k0, t, a, s, b, q - 1)
        W == face.weight[q]
        grounded == wk.floatation[q] <= 0
        beta == IF grounded THEN wk.beta[q] ELSE 0
        dbeta == IF grounded THEN wk.dbeta[q] ELSE 0
        u == wk.u[q]
        p == Mul(face.chi[<<q, t>>], face.chi[<<q, s>>])
        term ==
          IF a = 0 /\ b = 0
            THEN Mul(Mul(W, p), Add(beta, Mul(Mul(dbeta, u.u), u.u)))
          ELSE IF a = 0 /\ b = 1
            THEN Mul(Mul(Mul(Mul(W, p), dbeta), u.u), u.v)
          ELSE IF a = 1 /\ b = 0
            THEN Mul(Mul(Mul(Mul(W, p), dbeta), u.v), u.u)
          ELSE Mul(Mul(W, p), Add(beta, Mul(Mul(dbeta, u.v), u.v)))
    IN Add(before, term)

\* Blatter::jacobian_basal(face, tauc_nodal, f_nodal, velocity, K)
jacobian_basal(face, wk, Kin) ==
  [rc \in KIndices |->
     JacobianBasalEntry(face, wk, Kin[rc], rc[1] \div 2, rc[1] % 2,
                        rc[2] \div 2, rc[2] % 2, face.n_pts)]

\* "fill the lower-triangular part of the element Jacobian": for s < t,
\* K[t * 2 + a][s * 2 + b] = K[s * 2 + b][t * 2 + a]
FillLowerTriangle(Kin) ==
  [rc \in KIndices |->
     IF rc[2] \div 2 < rc[1] \div 2 THEN Kin[<<rc[2], rc[1]>>] ELSE Kin[rc]]

\* The shape functions of an element at its quadrature points: the
\* derivatives of chi(q, t), which Q1Element3::reset computes from the
\* geometry of the element.
ElementChi(n_pts, c) ==
  [qt \in (1..n_pts) \X (0..(q13d_n_chi - 1)) |->
     [dx |-> 2 * (((qt[2] + qt[1] + c) % 3) - 1),
      dy |-> 2 * ((((qt[2] \div 2) + qt[1]) % 3) - 1),
      dz |-> 2 * (2 * (((qt[2] \div 4) + c) % 2) - 1)]]

\* The values of the shape functions on the bottom face (face 4), which
\* vanish at the nodes of the top face.
FaceChi(n_pts) ==
  [qt \in (1..n_pts) \X (0..(q13d_n_chi - 1)) |->
     IF qt[2] < 4 THEN 1 + ((qt[2] + qt[1]) % 2) ELSE 0]

\* element.weight(q), face.weight(q)
QuadratureWeights(n_pts) == [q \in 1..n_pts |-> 2 * q - 1]

\* u_x, u_y, u_z at a quadrature point, as element.evaluate gives them
VelocityGradients ==
  {[u_x |-> [u |-> 1, v |-> 3], u_y |-> [u |-> 5, v |-> 1],
    u_z |-> [u |-> 2, v |-> 0 - 2]],
   [u_x |-> [u |-> 3, v |-> 0 - 1], u_y |-> [u |-> 1, v |-> 2],
    u_z |-> [u |-> 0, v |-> 4]]}

\* 1/3 as a double: the nearest number with MantissaBits significant bits,
\* in units of 2^-(MantissaBits + 1).
OneThird == (2 ^ (MantissaBits + 1)) \div 3

\* eta and deta as m_flow_law->effective_viscosity returns them; deta is
\* zero for a linear flow law.
Viscosities ==
  {[eta |-> 1, deta |-> 0], [eta |-> 3, deta |-> 0],
   [eta |-> 3, deta |-> 0 - OneThird]}

\* The data of the basal boundary at a quadrature point of the face: the
\* floatation, the sliding velocity, and beta and dbeta as
\* m_basal_sliding_law->drag_with_derivative returns them.
BasalData ==
  {[floatation |-> 1, beta |-> 3, dbeta |-> OneThird, u |-> [u |-> 7, v |-> 3]],
   [floatation |-> 0, beta |-> 2, dbeta |-> 0, u |-> [u |-> 7, v |-> 3]],
   [floatation |-> 0, beta |-> 3, dbeta |-> OneThird, u |-> [u |-> 0, v |-> 0]],
   [floatation |-> 0 - 1, beta |-> 3, dbeta |-> OneThird, u |-> [u |-> 7, v |-> 3]]}

InitBlatterK ==
  /\ \E k \in 0..1, n_pts \in 1..MaxPts, c \in 0..1 :
       elem = [k |-> k, n_pts |-> n_pts,
               weight |-> QuadratureWeights(n_pts),
               chi |-> ElementChi(n_pts, c),
               face |-> [n_pts |-> n_pts,
                         weight |-> QuadratureWeights(n_pts),
                         chi |-> FaceChi(n_pts)]]
  /\ \E g \in VelocityGradients, v \in Viscosities, bd \in BasalData :
       /\ elem.k # 0 => bd = CHOOSE x \in BasalData : x.floatation > 0
       /\ work = [u_x |-> [q \in 1..elem.n_pts |-> g.u_x],
                  u_y |-> [q \in 1..elem.n_pts |-> g.u_y],
                  u_z |-> [q \in 1..elem.n_pts |-> g.u_z],
                  eta |-> [q \in 1..elem.n_pts |-> v.eta],
                  deta |-> [q \in 1..elem.n_pts |-> v.deta],
                  floatation |-> [q \in 1..elem.n_pts |-> bd.floatation],
                  beta |-> [q \in 1..elem.n_pts |-> bd.beta],
                  dbeta |-> [q \in 1..elem.n_pts |-> bd.dbeta],
                  u |-> [q \in 1..elem.n_pts |-> bd.u]]
  /\ K = memset
  /\ IdleRest
  /\ op = "memset"
  /\ pc = "jacobian_f"
  /\ IdlePoints /\ IdleDecomp /\ IdleNodeType
  /\ dir = Idle /\ J = Idle /\ todo = Idle
  /\ x_global = Idle /\ r_global = Idle /\ x_nodal = Idle

\* jacobian_f(element, velocity, B_nodal, K)
JacobianF ==
  /\ pc = "jacobian_f"
  /\ K' = jacobian_f(elem, work, K)
  /\ op' = "jacobian_f"
  /\ pc' = IF elem.k = 0 THEN "jacobian_basal" ELSE "fill"
  /\ UNCHANGED <<grid, pts, visited, ncalls, width, da, owned, dir, elem, J,
                 todo, x_global, r_global, x_nodal, work>>
  /\ UNCHANGED nvars
  /\ UNCHANGED yvars

\* if (k == 0): jacobian_basal(*face, basal_yield_stress, floatation,
\* velocity, K)
JacobianBasal ==
  /\ pc = "jacobian_basal"
  /\ K' = jacobian_basal(elem.face, work, K)
  /\ op' = "jacobian_basal"
  /\ pc' = "fill"
  /\ UNCHANGED <<grid, pts, visited, ncalls, width, da, owned, dir, elem, J,
                 todo, x_global, r_global, x_nodal, work>>
  /\ UNCHANGED nvars
  /\ UNCHANGED yvars

\* The fill step; K is then passed to element.add_contribution.
FillLower ==
  /\ pc = "fill"
  /\ K' = FillLowerTriangle(K)
  /\ op' = "fill"
  /\ pc' = "add_contribution"
  /\ UNCHANGED <<grid, pts, visited, ncalls, width, da, owned, dir, elem, J,
                 todo, x_global, r_global, x_nodal, work>>
  /\ UNCHANGED nvars
  /\ UNCHANGED yvars

NextBlatterK ==
  \/ JacobianF
  \/ JacobianBasal
  \/ FillLower

SpecBlatterK == InitBlatterK /\ [][NextBlatterK]_vars

(***************************************************************************)
(* SpecSetup: Poisson3::setup pads the grid of an IceGrid for n_levels     *)
(* levels of coarsening and records the bounds of the padded domain.       *)
(* Lengths are counted in units of dx / 2.                                  *)
(***************************************************************************)
\* The largest number of nodes per axis of the grid given to setup.
SetupM == 6

\* The IceGrids given to setup, with the decomposition of their DM: the
\* spacing dx = dy and the half-widths Lx = dx (Mx - 1) / 2.
SetupGrids ==
  UNION { { [Mx |-> q[1], My |-> q[2], Nx |-> q[3], Ny |-> q[4],
             lx |-> lx, ly |-> ly, dx |-> 2 * h, dy |-> 2 * h,
             Lx |-> h * (q[1] - 1), Ly |-> h * (q[2] - 1)] :
              lx \in OwnershipRanges(q[1], q[3]), ly \in OwnershipRanges(q[2], q[4]),
              h \in HalfWidths } :
          q \in { qq \in (1..SetupM) \X (1..SetupM) \X (1..MaxProcs) \X (1..MaxProcs) :
                    qq[3] * qq[4] <= MaxProcs } }

\* m_grid_info = {x_min, x_max, y_min, y_max, ...}: x_max = Lx, x_min =
\* -x_max, then x_max += pad_x * dx (the same in y).
GridInfo(g, n_levels) ==
  [x_min |-> 0 - g.Lx, x_max |-> g.Lx + pad(g.Mx, n_levels) * g.dx,
   y_min |-> 0 - g.Ly, y_max |-> g.Ly + pad(g.My, n_levels) * g.dy]

InitSetup ==
  /\ grid \in SetupGrids
  /\ da = Idle /\ owned = Idle
  /\ IdleIter
  /\ dir = Idle /\ elem = Idle /\ J = Idle /\ todo = Idle
  /\ x_global = Idle /\ r_global = Idle /\ x_nodal = Idle /\ pc = Idle
  /\ op = "init"
  /\ IdleNodeType
  /\ K = Idle /\ work = Idle /\ m_grid_info = Idle /\ IdleSolve
  /\ section = Idle

\* Poisson3::setup(pism_da, Mz, n_levels)
Setup ==
  /\ op = "init"
  /\ \E n_levels \in 0..MaxLevels :
       /\ da' = setup(grid, n_levels)
       /\ m_grid_info' = GridInfo(grid, n_levels)
  /\ op' = "setup"
  /\ UNCHANGED <<grid, pts, visited, ncalls, width, owned,
                 dir, elem, J, todo, x_global, r_global, x_nodal, pc>>
  /\ UNCHANGED nvars
  /\ UNCHANGED <<K, work, section>>
  /\ UNCHANGED svars
  /\ UNCHANGED xvars

NextSetup == Setup

SpecSetup == InitSetup /\ [][NextSetup]_vars

(***************************************************************************)
(* SpecSolve: Poisson3::update and the nonlinear solve it starts.  The     *)
(* backend (SNESSolve) calls function_callback and jacobian_callback,      *)
(* tests for convergence after each residual and takes Newton steps that   *)
(* overwrite m_x in place; an iterate is the number of Newton steps that   *)
(* led to it.                                                              *)
(***************************************************************************)
MaxNewton == 2
MaxUpdates == 2

\* The variables of the components modelled above.
cvars == <<grid, pts, visited, ncalls, width, da, owned, dvars, nvars,
           K, work, m_grid_info, section, xvars>>

IdleCore ==
  /\ IdlePoints /\ IdleDecomp /\ IdleDirichlet /\ IdleNodeType
  /\ K = Idle /\ work = Idle /\ m_grid_info = Idle

\* What compute_residual and compute_jacobian may throw: a
\* pism::RuntimeError (PISM_CHK), another std::exception, anything else.
Exceptions == {"RuntimeError", "std::exception", "other"}

NoException == "none"

\* The handler of a callback alternative to catch (...).
CatchRuntimeErrorOnly(exc) == exc = "RuntimeError"

\* catch (...)
CatchAll(exc) == exc \in Exceptions

\* handle_fatal_errors(com): reports the exception being handled on the
\* communicator and returns.
handle_fatal_errors(exc) == [handled |-> TRUE, escaped |-> NoException]

\* The body shared by the callbacks: try { compute } catch (...) {
\* PetscObjectGetComm (of the DM stored by setup: succeeds);
\* handle_fatal_errors(com); SETERRQ(com, 1, ...) } return 0.
Callback(thrown) ==
  IF thrown = NoException
    THEN [ret |-> 0, handled |-> FALSE, escaped |-> NoException]
    ELSE IF CatchAll(thrown)
           THEN [ret |-> 1] @@ handle_fatal_errors(thrown)
           ELSE [ret |-> 0, handled |-> FALSE, escaped |-> thrown]

\* Poisson3::function_callback
function_callback(thrown) == Callback(thrown)

\* Poisson3::jacobian_callback; Blatter::jacobian_callback has the same body
jacobian_callback(thrown) == Callback(thrown)

\* PISM_CHK(ierr, name) throws a RuntimeError if ierr is not zero.
PISM_CHK(ierr) == IF ierr # 0 THEN "RuntimeError" ELSE NoException

\* The value of m_solution before the first update.
NoSolution == 0 - 1

\* After setup: VecSet(m_x, 0.0); SNESSetFromOptions may or may not ask for
\* an error when the solve does not converge.
InitSolve ==
  /\ IdleCore /\ section = Idle /\ IdleExt
  /\ m_x = 0
  /\ m_solution = NoSolution
  /\ \E e \in BOOLEAN :
       snes = [pc |-> "idle", error_if_not_converged |-> e, updates |-> 0,
               it |-> 0, start |-> 0, callback |-> "none",
               thrown |-> NoException, ret |-> 0, handled |-> FALSE,
               escaped |-> NoException, reason |-> "none", ierr |-> 0,
               result |-> "none"]

\* Poisson3::update up to the call of SNESSolve(m_snes, NULL, m_x), which
\* starts from the stored m_x.
UpdateBegin ==
  /\ snes.pc = "idle" /\ snes.updates < MaxUpdates
  /\ snes' = [snes EXCEPT !.pc = "function", !.updates = @ + 1, !.it = 0,
                          !.start = m_x, !.callback = "none",
                          !.thrown = NoException, !.ret = 0,
                          !.handled = FALSE, !.reason = "iterating",
                          !.ierr = 0, !.result = "running"]
  /\ UNCHANGED <<m_x, m_solution>>
  /\ UNCHANGED cvars

\* Where the backend goes after a callback.
AfterCallback(c, ok) ==
  IF c.escaped # NoException THEN "unwinding"
  ELSE IF c.ret # 0 THEN "error" ELSE ok

\* The backend calls function_callback.
FunctionCallback ==
  /\ snes.pc = "function"
  /\ \E thrown \in {NoException} \cup Exceptions :
       LET c == function_callback(thrown)
       IN snes' = [snes EXCEPT !.callback = "function", !.thrown = thrown,
                               !.ret = c.ret, !.handled = c.handled,
                               !.escaped = c.escaped,
                               !.pc = AfterCallback(c, "test")]
  /\ UNCHANGED <<m_x, m_solution>>
  /\ UNCHANGED cvars

\* The backend calls jacobian_callback.
JacobianCallback ==
  /\ snes.pc = "jacobian"
  /\ \E thrown \in {NoException} \cup Exceptions :
       LET c == jacobian_callback(thrown)
       IN snes' = [snes EXCEPT !.callback = "jacobian", !.thrown = thrown,
                               !.ret = c.ret, !.handled = c.handled,
                               !.escaped = c.escaped,
                               !.pc = AfterCallback(c, "step")]
  /\ UNCHANGED <<m_x, m_solution>>
  /\ UNCHANGED cvars

\* The backend's convergence test after a residual: converged, diverged
\* (SNESSolve returns an error only if asked to), or another iteration.
SnesTest ==
  /\ snes.pc = "test"
  /\ \/ snes' = [snes EXCEPT !.reason = "converged", !.pc = "solved"]
     \/ snes' = [snes EXCEPT !.reason = "diverged", !.pc = "solved",
                             !.ierr = IF snes.error_if_not_converged THEN 1 ELSE 0]
     \/ /\ snes.it < MaxNewton
        /\ snes' = [snes EXCEPT !.pc = "jacobian"]
  /\ UNCHANGED <<m_x, m_solution>>
  /\ UNCHANGED cvars

\* The backend takes a Newton step: the new iterate replaces m_x.
NewtonStep ==
  /\ snes.pc = "step"
  /\ m_x' = m_x + 1
  /\ snes' = [snes EXCEPT !.it = @ + 1, !.pc = "function"]
  /\ UNCHANGED m_solution
  /\ UNCHANGED cvars

\* A callback has returned an error code: SNESSolve returns it.
SnesError ==
  /\ snes.pc = "error"
  /\ snes' = [snes EXCEPT !.ierr = snes.ret, !.reason = "error", !.pc = "solved"]
  /\ UNCHANGED <<m_x, m_solution>>
  /\ UNCHANGED cvars

\* Poisson3::update after SNESSolve: PISM_CHK(ierr, "SNESSolve"), then
\* exact_solution and the copy of m_x into m_solution.
UpdateEnd ==
  /\ snes.pc = "solved"
  /\ IF PISM_CHK(snes.ierr) # NoException
       THEN /\ snes' = [snes EXCEPT !.result = PISM_CHK(snes.ierr), !.pc = "idle"]
            /\ UNCHANGED <<m_x, m_solution>>
       ELSE /\ snes' = [snes EXCEPT !.result = "returned", !.pc = "idle"]
            /\ m_solution' = m_x
            /\ UNCHANGED m_x
  /\ UNCHANGED cvars

NextSolve ==
  \/ UpdateBegin
  \/ FunctionCallback
  \/ JacobianCallback
  \/ SnesTest
  \/ NewtonStep
  \/ SnesError
  \/ UpdateEnd

SpecSolve == InitSolve /\ [][NextSolve]_vars

(***************************************************************************)
(* SpecSection: the ranks of a decomposition call fix_jacobian, where an   *)
(* insertion into J may fail; the loop of a rank is guarded by a           *)
(* ParallelSection, whose check() is collective.                           *)
(***************************************************************************)
\* The loop of fix_jacobian when the insertion after `budget` successful
\* ones fails (PISM_CHK throws); a negative budget: no insertion fails.
RECURSIVE FixJacobianTry(_, _, _, _, _)
FixJacobianTry(p, d, Jmat, identity, budget) ==
  IF ~Valid(p) THEN [J |-> Jmat, thrown |-> FALSE]
  ELSE LET ij == <<p.m_i, p.m_j>>
       IN IF d.m_indices[ij] = 1
            THEN IF budget = 0
                   THEN [J |-> Jmat, thrown |-> TRUE]
                   ELSE FixJacobianTry(next(p), d,
                          [Jmat EXCEPT ![<<ij, ij>>] = TupleAdd(@, identity)],
                          identity, budget - 1)
            ELSE FixJacobianTry(next(p), d, Jmat, identity, budget)

\* The alternative check() looks at the flag of the calling rank only.
ParallelSectionCheckLocal(flags, r) == flags[r]

\* ParallelSection::check(): the failure flags of all ranks are combined;
\* the call throws on every rank if any rank has failed.
ParallelSectionCheck(flags, r) == \E q \in DOMAIN flags : flags[q]

InitSection ==
  /\ da \in DirDAs
  /\ \E ind \in Indicators(da), dof \in 1..2, w \in Weights :
       /\ dir = [m_indices |-> ind, m_values |-> ValuesField(da, dof),
                 m_weight |-> w, dof |-> dof]
       /\ J = ZeroMatrix(da, dof)
  /\ section = [r \in Ranks(da) |-> [pc |-> "call", m_failed |-> FALSE]]
  /\ IdlePoints /\ owned = Idle
  /\ elem = Idle /\ todo = Idle /\ x_global = Idle /\ r_global = Idle
  /\ x_nodal = Idle /\ op = Idle /\ pc = Idle
  /\ IdleNodeType
  /\ K = Idle /\ work = Idle /\ m_grid_info = Idle /\ IdleSolve

\* Rank r runs fix_jacobian up to loop.check(): the loop inside try, and
\* loop.failed() in the handler if an insertion has thrown.
FixJacobianLoopGuarded(r) ==
  /\ section[r].pc = "call"
  /\ \E budget \in (0 - 1)..(MaxDirichlet - 1) :
       LET res == FixJacobianTry(Points(RankGrid(da, r)), dir, J,
                                 IdentityBlock(dir.dof, dir.m_weight), budget)
       IN /\ J' = res.J
          /\ section' = [section EXCEPT ![r] = [pc |-> "check", m_failed |-> res.thrown]]
  /\ UNCHANGED <<grid, pts, visited, ncalls, width, da, owned, dir, elem, todo,
                 x_global, r_global, x_nodal, op, pc, K, work, m_grid_info>>
  /\ UNCHANGED nvars
  /\ UNCHANGED svars
  /\ UNCHANGED xvars

\* Rank r leaves loop.check(), which completes once every rank has entered
\* it: fix_jacobian throws or returns.
FixJacobianCheck(r) ==
  /\ section[r].pc = "check"
  /\ \A q \in Ranks(da) : section[q].pc # "call"
  /\ section' = [section EXCEPT ![r].pc =
                   IF ParallelSectionCheck([q \in Ranks(da) |-> section[q].m_failed], r)
                     THEN "thrown" ELSE "returned"]
  /\ UNCHANGED <<grid, pts, visited, ncalls, width, da, owned, dir, elem, J, todo,
                 x_global, r_global, x_nodal, op, pc, K, work, m_grid_info>>
  /\ UNCHANGED nvars
  /\ UNCHANGED svars
  /\ UNCHANGED xvars

NextSection ==
  \E r \in Ranks(da) : FixJacobianLoopGuarded(r) \/ FixJacobianCheck(r)

SpecSection == InitSection /\ [][NextSection]_vars

(***************************************************************************)
(* SpecTongues: remove_narrow_tongues (remove_narrow_tongues.cc) on a      *)
(* doubly periodic grid as wide as one box stencil, so that the eight      *)
(* neighbours of every cell are the other cells of the grid.               *)
(***************************************************************************)
\* The width of a BoxStencil (mask.int_box(i, j)).
BoxWidth == 3

\* The predicates of namespace mask on the values of the cell type mask:
\* "ice_free_bedrock", "grounded", "floating", "ice_free_ocean".
ice_free_ocean(M) == M = "ice_free_ocean"
ice_free(M) == M \in {"ice_free_bedrock", "ice_free_ocean"}
grounded_ice(M) == M = "grounded"
floating_ice(M) == M = "floating"

BoxDirections == {"n", "e", "s", "w", "ne", "nw", "se", "sw"}

\* mask.int_box(i, j): the mask at (i, j) and at its eight neighbours
\* (n: j + 1, e: i + 1).
int_box(g, mask, i, j) ==
  [ij |-> mask[<<i, j>>],
   n  |-> mask[Wrap(g, i, j + 1)],     s  |-> mask[Wrap(g, i, j - 1)],
   e  |-> mask[Wrap(g, i + 1, j)],     w  |-> mask[Wrap(g, i - 1, j)],
   ne |-> mask[Wrap(g, i + 1, j + 1)], nw |-> mask[Wrap(g, i - 1, j + 1)],
   se |-> mask[Wrap(g, i + 1, j - 1)], sw |-> mask[Wrap(g, i - 1, j - 1)]]

\* BoxStencil<bool> ice_free: ice_free_ocean of the neighbours of a grounded
\* cell, ice_free of the neighbours of a floating cell.
IceFreeBox(M) ==
  [d \in BoxDirections |->
     IF grounded_ice(M.ij) THEN ice_free_ocean(M[d]) ELSE ice_free(M[d])]

\* The alternative condition has the tongue attached in the west only.
NarrowTongueWestOnly(f) ==
  ~f.w /\ f.nw /\ f.sw /\ f.n /\ f.s /\ f.e

\* The alternative condition does not look at the diagonal neighbours.
NarrowTongueNoDiagonals(f) ==
  \/ (~f.w /\ f.n /\ f.s /\ f.e)
  \/ (~f.n /\ f.w /\ f.e /\ f.s)
  \/ (~f.e /\ f.w /\ f.s /\ f.n)
  \/ (~f.s /\ f.w /\ f.e /\ f.n)

\* The alternative condition also takes a cell with no attached side.
NarrowTongueOrIsolated(f) ==
  \/ (f.nw /\ f.sw /\ f.n /\ f.s /\ f.e)
  \/ (f.nw /\ f.ne /\ f.w /\ f.e /\ f.s)
  \/ (f.ne /\ f.se /\ f.w /\ f.s /\ f.n)
  \/ (f.sw /\ f.se /\ f.w /\ f.e /\ f.n)

\* The condition under which the thickness is set to zero.
NarrowTongue(f) ==
  \/ (~f.w /\ f.nw /\ f.sw /\ f.n /\ f.s /\ f.e)
  \/ (~f.n /\ f.nw /\ f.ne /\ f.w /\ f.e /\ f.s)
  \/ (~f.e /\ f.ne /\ f.se /\ f.w /\ f.s /\ f.n)
  \/ (~f.s /\ f.sw /\ f.se /\ f.w /\ f.e /\ f.n)

\* The cells the loop passes over: ice-free ones and grounded ice on a bed
\* at or above the sea level.
Skipped(geo, ij) ==
  \/ ice_free(geo.cell_type[ij])
  \/ (grounded_ice(geo.cell_type[ij])
        /\ geo.bed_elevation[ij] >= geo.sea_level_elevation[ij])

\* The alternative loop body decides with the thickness it is updating: a
\* cell whose thickness is zero counts as ice-free ocean.
RemoveAtReadsThickness(g, geo, thk, ij) ==
  LET mask == [n \in DOMAIN thk |->
                 IF thk[n] = 0 /\ ~ice_free(geo.cell_type[n])
                   THEN "ice_free_ocean" ELSE geo.cell_type[n]]
      M == int_box(g, mask, ij[1], ij[2])
  IN IF ~Skipped(geo, ij) /\ ~ice_free(M.ij) /\ NarrowTongue(IceFreeBox(M))
       THEN [thk EXCEPT ![ij] = 0]
       ELSE thk

\* The body of the loop at the point ij: the decision reads
\* geometry.cell_type, bed_elevation and sea_level_elevation only, and the
\* only write is ice_thickness(i, j) = 0.0.
RemoveAt(g, geo, thk, ij) ==
  LET M == int_box(g, geo.cell_type, ij[1], ij[2])
  IN IF ~Skipped(geo, ij) /\ NarrowTongue(IceFreeBox(M))
       THEN [thk EXCEPT ![ij] = 0]
       ELSE thk

\* for (Points p(*grid); p; p.next()) { ... ice_thickness(i, j) = 0.0; }
RECURSIVE RemoveLoop(_, _, _, _)
RemoveLoop(p, g, geo, thk) ==
  IF ~Valid(p) THEN thk
  ELSE RemoveLoop(next(p), g, geo, RemoveAt(g, geo, thk, <<p.m_i, p.m_j>>))

\* remove_narrow_tongues(geometry, ice_thickness)
remove_narrow_tongues(g, geo, thk) == RemoveLoop(Points(g), g, geo, thk)

\* The grid, owned by one process.
TongueGrid ==
  [Mx |-> BoxWidth, My |-> BoxWidth, xs |-> 0, xm |-> BoxWidth,
   ys |-> 0, ym |-> BoxWidth, periodicity |-> XY_PERIODIC]

\* The geometries: every cell is ice-free bedrock, ice-free ocean or ice;
\* the ice of a geometry is floating, grounded below the sea level, or
\* grounded on a bed at the sea level.  The sea level is 0.
Geometries ==
  { [cell_type |-> [n \in Nodes(TongueGrid) |-> IF c[n] = "ice" THEN kind[1] ELSE c[n]],
     bed_elevation |-> [n \in Nodes(TongueGrid) |->
                          CASE c[n] = "ice_free_bedrock" -> 1
                            [] c[n] = "ice" -> kind[2]
                            [] OTHER -> 0 - 1],
     sea_level_elevation |-> [n \in Nodes(TongueGrid) |-> 0]] :
       c \in [Nodes(TongueGrid) -> {"ice_free_bedrock", "ice", "ice_free_ocean"}],
       kind \in {<<"floating", 0 - 1>>, <<"grounded", 0 - 1>>, <<"grounded", 0>>} }

\* The thickness that goes with a mask: positive where there is ice.
ThicknessOf(geo) ==
  [n \in Nodes(TongueGrid) |->
     IF ice_free(geo.cell_type[n]) THEN 0 ELSE 100 + 10 * n[1] + n[2]]

InitTongues ==
  /\ grid = TongueGrid
  /\ geometry \in Geometries
  /\ ice_thickness = ThicknessOf(geometry)
  /\ op = "init"
  /\ IdleIter /\ IdleDecomp
  /\ dir = Idle /\ elem = Idle /\ J = Idle /\ todo = Idle
  /\ x_global = Idle /\ r_global = Idle /\ x_nodal = Idle /\ pc = Idle
  /\ IdleNodeType
  /\ K = Idle /\ work = Idle /\ m_grid_info = Idle
  /\ m_x = Idle /\ m_solution = Idle /\ snes = Idle /\ section = Idle
  /\ bc = Idle /\ IdleHooks

RemoveNarrowTongues ==
  /\ op = "init"
  /\ ice_thickness' = remove_narrow_tongues(grid, geometry, ice_thickness)
  /\ op' = "remove_narrow_tongues"
  /\ UNCHANGED <<grid, pts, visited, ncalls, width, da, owned, dir, elem, J, todo,
                 x_global, r_global, x_nodal, pc, K, work, m_grid_info, section,
                 geometry, bc, hvars>>
  /\ UNCHANGED nvars
  /\ UNCHANGED svars

NextTongues == RemoveNarrowTongues

SpecTongues == InitTongues /\ [][NextTongues]_vars

(***************************************************************************)
(* SpecTongueOrder: the loop of remove_narrow_tongues taken over the owned *)
(* points in another order than that of Points.                            *)
(***************************************************************************)
RECURSIVE GCD(_, _)
GCD(a, b) == IF b = 0 THEN a ELSE GCD(b, a % b)

\* The loop body applied to the points of `order`, one after the other.
RECURSIVE RemoveInOrder(_, _, _, _)
RemoveInOrder(order, g, geo, thk) ==
  IF order = <<>> THEN thk
  ELSE RemoveInOrder(Tail(order), g, geo, RemoveAt(g, geo, thk, Head(order)))

\* Traversal orders of the owned points: the order of Points taken with a
\* stride s coprime to the number of points (s = 1 is the order of Points
\* started at its second point, the largest s is the reverse order).
TraversalOrders(g) ==
  LET base == RunLoop(Points(g), <<>>)
      n == Len(base)
  IN { [k \in 1..n |-> base[((k * s) % n) + 1]] :
         s \in { t \in 1..(n - 1) : GCD(t, n) = 1 } }

\* The geometries of SpecTongueOrder: the cells of the middle row and of the
\* middle column vary, the four corners are ice-free ocean.
OrderGeometries ==
  { [cell_type |-> [n \in Nodes(TongueGrid) |-> IF c[n] = "ice" THEN kind[1] ELSE c[n]],
     bed_elevation |-> [n \in Nodes(TongueGrid) |->
                          CASE c[n] = "ice_free_bedrock" -> 1
                            [] c[n] = "ice" -> kind[2]
                            [] OTHER -> 0 - 1],
     sea_level_elevation |-> [n \in Nodes(TongueGrid) |-> 0]] :
       c \in { f \in [Nodes(TongueGrid) -> {"ice_free_bedrock", "ice", "ice_free_ocean"}] :
                 \A n \in Nodes(TongueGrid) :
                    (n[1] # 1 /\ n[2] # 1) => f[n] = "ice_free_ocean" },
       kind \in {<<"floating", 0 - 1>>, <<"grounded", 0 - 1>>, <<"grounded", 0>>} }

InitTongueOrder ==
  /\ grid = TongueGrid
  /\ geometry \in OrderGeometries
  /\ ice_thickness = ThicknessOf(geometry)
  /\ op = "init"
  /\ pts = Idle /\ visited = <<>> /\ ncalls = 0 /\ width = 0
  /\ IdleDecomp
  /\ dir = Idle /\ elem = Idle /\ J = Idle /\ todo = Idle
  /\ x_global = Idle /\ r_global = Idle /\ x_nodal = Idle /\ pc = Idle
  /\ IdleNodeType
  /\ K = Idle /\ work = Idle /\ m_grid_info = Idle
  /\ m_x = Idle /\ m_solution = Idle /\ snes = Idle /\ section = Idle
  /\ bc = Idle /\ IdleHooks

\* remove_narrow_tongues with its loop in the order `visited`.
RemoveNarrowTonguesInOrder ==
  /\ op = "init"
  /\ \E order \in TraversalOrders(grid) :
       /\ visited' = order
       /\ ice_thickness' = RemoveInOrder(order, grid, geometry, ice_thickness)
  /\ op' = "remove_narrow_tongues"
  /\ UNCHANGED <<grid, pts, ncalls, width, da, owned, dir, elem, J, todo,
                 x_global, r_global, x_nodal, pc, K, work, m_grid_info, section,
                 geometry, bc, hvars>>
  /\ UNCHANGED nvars
  /\ UNCHANGED svars

NextTongueOrder == RemoveNarrowTonguesInOrder

SpecTongueOrder == InitTongueOrder /\ [][NextTongueOrder]_vars

(***************************************************************************)
(* SpecAssembly: the 3D assembly of Poisson3 (compute_residual,            *)
(* compute_jacobian) and of Blatter (compute_jacobian, jacobian_dirichlet) *)
(* by the ranks of a decomposition in x and y.  Real numbers are           *)
(* fractions <<numerator, denominator>> with a positive denominator; an   *)
(* element contributes 1 to every entry it writes.                         *)
(***************************************************************************)
AsmMz == 3

\* The fraction n / d (d > 0) in lowest terms.
Fraction(n, d) ==
  LET g == GCD(IF n < 0 THEN 0 - n ELSE n, d)
  IN <<n \div g, d \div g>>

RInt(n) == <<n, 1>>
RAdd(a, b) == Fraction(a[1] * b[2] + b[1] * a[2], a[2] * b[2])
RMul(a, b) == Fraction(a[1] * b[1], a[2] * b[2])
\* a / b for b > 0
RDiv(a, b) == Fraction(a[1] * b[2], a[2] * b[1])
REq(a, b) == a[1] * b[2] = b[1] * a[2]
RMax(a, b) == IF a[1] * b[2] < b[1] * a[2] THEN b ELSE a

\* const double u_exterior = 0.0
u_exterior == 0

\* The offsets of the eight nodes of a Q1 hexahedron (fem::q13d).
m_i_offset3 == <<0, 1, 1, 0, 0, 1, 1, 0>>
m_j_offset3 == <<0, 0, 1, 1, 0, 0, 1, 1>>
m_k_offset3 == <<0, 0, 0, 0, 1, 1, 1, 1>>

Nodes3(d) == (0..(d.Mx - 1)) \X (0..(d.My - 1)) \X (0..(d.Mz - 1))

\* element.local_to_global(i, j, k, n)
local_to_global3(e, n) ==
  <<e[1] + m_i_offset3[n], e[2] + m_j_offset3[n], e[3] + m_k_offset3[n]>>

\* The elements of the loops over gzs <= k < gzs + gzm - 1, gys <= j <
\* gys + gym - 1, gxs <= i < gxs + gxm - 1 (z is not decomposed).
ElementRange3(info, mz) ==
  { <<ij[1], ij[2], k>> : ij \in ElementRange(info), k \in 0..(mz - 2) }

\* "an element is exterior if one or more of its nodes are exterior"
exterior_element(Pg, e) ==
  \E n \in 1..q13d_n_chi :
    Pg[<<local_to_global3(e, n)[1], local_to_global3(e, n)[2]>>].node_type = NODE_EXTERIOR

\* dirichlet_node(info, I): Poisson3 has its Dirichlet nodes at the bottom
\* and at the top; Blatter leaves the choice to the class derived from it.
dirichlet_node(b, mz, I) ==
  IF b.name = "Poisson3" THEN I[3] = 0 \/ I[3] = mz - 1 ELSE I \in b.dirichlet

\* element.reset(i, j, k, z) keeps the rows of the nodes the rank owns;
\* mark_row_invalid(n) at Dirichlet nodes.
RowValid(b, info, mz, I) ==
  <<I[1], I[2]>> \in OwnedNodes(info) /\ ~dirichlet_node(b, mz, I)

\* The alternative assembly never marks a column.
ColumnValidAlways(b, mz, I) == TRUE

\* mark_col_invalid(n) at Dirichlet nodes
ColumnValid(b, mz, I) == ~dirichlet_node(b, mz, I)

\* The elements of the loop that have the node I, the offsets being 0 or 1.
ElementsAt(info, mz, I) ==
  { e \in ElementRange3(info, mz) :
      /\ e[1] \in (I[1] - 1)..I[1] /\ e[2] \in (I[2] - 1)..I[2]
      /\ e[3] \in (I[3] - 1)..I[3] }

\* The element loop of compute_jacobian: element.add_contribution(K, J) for
\* every element of the loop that is not exterior.
JacobianElementLoop(b, info, mz, Pg, Jmat) ==
  [rc \in DOMAIN Jmat |->
     IF RowValid(b, info, mz, rc[1]) /\ ColumnValid(b, mz, rc[2])
       THEN RAdd(Jmat[rc],
                 RInt(Cardinality({ e \in ElementsAt(info, mz, rc[1]) :
                        /\ ~exterior_element(Pg, e)
                        /\ \E t, s \in 1..q13d_n_chi :
                             /\ local_to_global3(e, t) = rc[1]
                             /\ local_to_global3(e, s) = rc[2] })))
       ELSE Jmat[rc]]

\* dx = (x_max - x_min) / (info->mx - 1), the same in y
GridSpacing(lo, hi, m) == RDiv(RInt(hi - lo), RInt(m - 1))

\* dz = std::max(thickness, min_thickness) / (info->mz - 1), with the
\* thickness 1.0 stored as thickness_one
LayerThickness(thk, mz) ==
  RDiv(RMax(Fraction(thk, thickness_one), Fraction(min_thickness, thickness_one)),
       RInt(mz - 1))

\* dirichlet_scale(dx, dy, dz) =
\*   dx * dy * dz * (1.0 / (dx * dx) + 1.0 / (dy * dy) + 1.0 / dz * dz)
dirichlet_scale(dx, dy, dz) ==
  RMul(RMul(RMul(dx, dy), dz),
       RAdd(RAdd(RDiv(RInt(1), RMul(dx, dx)), RDiv(RInt(1), RMul(dy, dy))),
            RMul(RDiv(RInt(1), dz), dz)))

\* The scaling of the diagonal entry at the node (i, j, k): dirichlet_scale
\* in Poisson3, 1.0 in Blatter.
Scaling(b, gi, d, Pg, I) ==
  IF b.name = "Poisson3"
    THEN dirichlet_scale(GridSpacing(gi.x_min, gi.x_max, d.Mx),
                         GridSpacing(gi.y_min, gi.y_max, d.My),
                         LayerThickness(Pg[<<I[1], I[2]>>].thickness, d.Mz))
    ELSE RInt(1)

\* Is the equation of the node I replaced: an exterior or a Dirichlet node
Replaced(b, mz, Pg, I) ==
  Pg[<<I[1], I[2]>>].node_type = NODE_EXTERIOR \/ dirichlet_node(b, mz, I)

\* The alternative loop over the owned nodes takes the Dirichlet nodes only.
JacobianDirichletNoExterior(b, info, gi, d, Pg, Jmat) ==
  [rc \in DOMAIN Jmat |->
     IF /\ rc[1] = rc[2]
        /\ <<rc[1][1], rc[1][2]>> \in OwnedNodes(info)
        /\ dirichlet_node(b, d.Mz, rc[1])
       THEN RAdd(Jmat[rc], Scaling(b, gi, d, Pg, rc[1]))
       ELSE Jmat[rc]]

\* The loop over the owned nodes at the end of compute_jacobian, and
\* jacobian_dirichlet: MatSetValuesBlockedStencil(J, 1, &row, 1, &row,
\* &scaling, ADD_VALUES).
JacobianDirichlet(b, info, gi, d, Pg, Jmat) ==
  [rc \in DOMAIN Jmat |->
     IF /\ rc[1] = rc[2]
        /\ <<rc[1][1], rc[1][2]>> \in OwnedNodes(info)
        /\ Replaced(b, d.Mz, Pg, rc[1])
       THEN RAdd(Jmat[rc], Scaling(b, gi, d, Pg, rc[1]))
       ELSE Jmat[rc]]

\* The alternative leaves the matrix as it is.
ZeroRowsNot(info, Jmat) == Jmat

\* MatZeroEntries(J) on the rows of the rank
ZeroRows(info, Jmat) ==
  [rc \in DOMAIN Jmat |->
     IF <<rc[1][1], rc[1][2]>> \in OwnedNodes(info) THEN RInt(0) ELSE Jmat[rc]]

\* The first loop of Poisson3::compute_residual over the owned nodes.
ResidualDirichlet(b, info, gi, d, Pg, x, u_exact, R) ==
  [I \in DOMAIN R |->
     IF <<I[1], I[2]>> \notin OwnedNodes(info) THEN R[I]
     ELSE IF Pg[<<I[1], I[2]>>].node_type = NODE_EXTERIOR
            THEN RMul(Scaling(b, gi, d, Pg, I), RInt(x[I] - u_exterior))
     ELSE IF dirichlet_node(b, d.Mz, I)
            THEN RMul(Scaling(b, gi, d, Pg, I), RInt(x[I] - u_exact[I]))
            ELSE RInt(0)]

\* The first version of Poisson3 has its Dirichlet nodes on the upper faces
\* in x, y and z and its Neumann nodes on the lower ones.
FirstVersion(b) == b.name = "Poisson3, first version"

dirichlet_node_first(d, I) == I[1] = d.Mx - 1 \/ I[2] = d.My - 1 \/ I[3] = d.Mz - 1

neumann_node(I) == I[1] = 0 \/ I[2] = 0 \/ I[3] = 0

\* The first loop of the first version of Poisson3::compute_residual.
ResidualDirichletFirst(b, info, d, x, u_exact, R) ==
  [I \in DOMAIN R |->
     IF <<I[1], I[2]>> \notin OwnedNodes(info) THEN R[I]
     ELSE IF dirichlet_node(b, d.Mz, I) THEN RInt(u_exact[I] - x[I])
     ELSE RInt(0)]

\* fem::q13d::incident_nodes: the nodes of the left, right, front, back,
\* bottom and top face of the hexahedron (nodes counted from 1).
incident_nodes ==
  << <<4, 1, 5, 8>>, <<2, 3, 7, 6>>, <<1, 2, 6, 5>>,
     <<3, 4, 8, 7>>, <<1, 2, 3, 4>>, <<5, 6, 7, 8>> >>

\* "skip ice-free elements" (the first version has no node types)
ElementVisited(b, Pg, e) == FirstVersion(b) \/ ~exterior_element(Pg, e)

\* "A face is a part of the Neumann boundary if all four nodes are Neumann
\* nodes": NODE_BOUNDARY nodes, neumann_node in the first version.
NeumannFace(b, Pg, e, f) ==
  \A n \in 1..4 :
    LET I == local_to_global3(e, incident_nodes[f][n])
    IN IF FirstVersion(b) THEN neumann_node(I)
       ELSE Pg[<<I[1], I[2]>>].node_type = NODE_BOUNDARY

\* What the elements of the loop hold in R_nodal for the node I, taken
\* together: every element 1 from its quadrature points and 10 from each
\* of its Neumann faces that has the node.
ResidualContributions(b, info, mz, Pg, I) ==
  LET at == { et \in ElementsAt(info, mz, I) \X (1..q13d_n_chi) :
                /\ local_to_global3(et[1], et[2]) = I
                /\ ElementVisited(b, Pg, et[1]) }
  IN Cardinality(at) +
     10 * Cardinality({ etf \in at \X DOMAIN incident_nodes :
                          /\ etf[1][2] \in Range(incident_nodes[etf[2]])
                          /\ NeumannFace(b, Pg, etf[1][1], etf[2]) })

\* An element loop that does not mark the rows of the Dirichlet nodes.
ResidualElementLoopRowsNotMarked(b, info, mz, Pg, R) ==
  [I \in DOMAIN R |->
     IF <<I[1], I[2]>> \in OwnedNodes(info)
       THEN RAdd(R[I], RInt(ResidualContributions(b, info, mz, Pg, I)))
       ELSE R[I]]

\* The element loop of compute_residual: element.add_contribution(R_nodal, R)
\* for every element of the loop that is not skipped.
ResidualElementLoop(b, info, mz, Pg, R) ==
  [I \in DOMAIN R |->
     IF RowValid(b, info, mz, I)
       THEN RAdd(R[I], RInt(ResidualContributions(b, info, mz, Pg, I)))
       ELSE R[I]]

\* Poisson3::compute_residual(info, x, R)
compute_residual(b, info, gi, d, Pg, x, u_exact, R) ==
  ResidualElementLoop(b, info, d.Mz, Pg,
    IF FirstVersion(b) THEN ResidualDirichletFirst(b, info, d, x, u_exact, R)
    ELSE ResidualDirichlet(b, info, gi, d, Pg, x, u_exact, R))

\* compute_node_type on every rank, one after the other.
RECURSIVE ClassifyAll(_, _, _)
ClassifyAll(d, Pg, n) ==
  IF n > d.Nx * d.Ny THEN Pg
  ELSE ClassifyAll(d, compute_node_type(GhostedInfo(d, RankSeq(d)[n]), Pg, min_thickness),
                   n + 1)

\* The DMs: not periodic, AsmMz levels.
AsmDAs ==
  { [Mx |-> d.Mx, My |-> d.My, Mz |-> AsmMz, Nx |-> d.Nx, Ny |-> d.Ny,
     lx |-> d.lx, ly |-> d.ly] : d \in { dd \in DirDAs : dd.periodicity = NOT_PERIODIC } }

\* Thickness fields: ice everywhere, or everywhere but at one node.
AsmThickness(d) ==
  {[n \in Nodes(d) |-> thickness_one]} \cup
  { [n \in Nodes(d) |-> IF n = m THEN 0 ELSE thickness_one] : m \in Nodes(d) }

\* The solvers: Poisson3, and Blatter with no Dirichlet node or with the
\* nodes of the column i = 0, j = 0.
Solvers(d) ==
  { [name |-> "Poisson3", dirichlet |-> {}],
    [name |-> "Blatter", dirichlet |-> {}],
    [name |-> "Blatter", dirichlet |-> { I \in Nodes3(d) : I[1] = 0 /\ I[2] = 0 }] }

\* What each rank does, in order.
Phases(b) ==
  IF b.name = "Poisson3" THEN <<"residual", "zero", "elements", "dirichlet">>
  ELSE <<"zero", "elements", "dirichlet">>

AsmTodo(d, b) ==
  [n \in 1..(d.Nx * d.Ny * Len(Phases(b))) |->
     <<RankSeq(d)[((n - 1) \div Len(Phases(b))) + 1],
       Phases(b)[((n - 1) % Len(Phases(b))) + 1]>>]

InitAssembly ==
  /\ da \in AsmDAs
  /\ bc \in Solvers(da)
  /\ \E Hf \in AsmThickness(da) :
       P = ClassifyAll(da, [n \in Nodes(da) |-> [thickness |-> Hf[n], node_type |-> 0]], 1)
  /\ m_grid_info = [x_min |-> 0 - (da.Mx - 1), x_max |-> da.Mx - 1,
                    y_min |-> 0 - 2 * (da.My - 1), y_max |-> 2 * (da.My - 1)]
  /\ x_global = [I \in Nodes3(da) |-> 1 + I[1] + 2 * I[2] + 4 * I[3]]
  /\ x_nodal = [I \in Nodes3(da) |-> 10 + I[1] + I[2] + I[3]]
  /\ r_global = [I \in Nodes3(da) |-> RInt(7)]
  /\ J = [rc \in Nodes3(da) \X Nodes3(da) |-> RInt(7)]
  /\ todo = AsmTodo(da, bc)
  /\ op = "init"
  /\ level = 0 /\ pass = 0
  /\ IdlePoints /\ owned = Idle
  /\ dir = Idle /\ elem = Idle /\ pc = Idle
  /\ K = Idle /\ work = Idle
  /\ m_x = Idle /\ m_solution = Idle /\ snes = Idle /\ section = Idle
  /\ geometry = Idle /\ ice_thickness = Idle /\ IdleHooks

AsmInfo == GhostedInfo(da, Head(todo)[1])

AsmFrame ==
  /\ todo' = Tail(todo)
  /\ op' = Head(todo)[2]
  /\ UNCHANGED <<grid, pts, visited, ncalls, width, da, owned, dir, elem,
                 x_global, x_nodal, pc, K, work, m_grid_info, section,
                 geometry, ice_thickness, bc, hvars>>
  /\ UNCHANGED nvars
  /\ UNCHANGED svars

\* Poisson3::compute_residual on the next rank; x_nodal holds u_exact at
\* the nodes.
ComputeResidual ==
  /\ todo # <<>> /\ Head(todo)[2] = "residual"
  /\ r_global' = compute_residual(bc, AsmInfo, m_grid_info, da, P,
                                  x_global, x_nodal, r_global)
  /\ UNCHANGED J
  /\ AsmFrame

\* compute_jacobian on the next rank: MatZeroEntries(J)
ZeroJacobian ==
  /\ todo # <<>> /\ Head(todo)[2] = "zero"
  /\ J' = ZeroRows(AsmInfo, J)
  /\ UNCHANGED r_global
  /\ AsmFrame

\* compute_jacobian on the next rank: the loop over the elements
AssembleJacobian ==
  /\ todo # <<>> /\ Head(todo)[2] = "elements"
  /\ J' = JacobianElementLoop(bc, AsmInfo, da.Mz, P, J)
  /\ UNCHANGED r_global
  /\ AsmFrame

\* compute_jacobian on the next rank: the Dirichlet and exterior nodes
FixDirichlet ==
  /\ todo # <<>> /\ Head(todo)[2] = "dirichlet"
  /\ J' = JacobianDirichlet(bc, AsmInfo, m_grid_info, da, P, J)
  /\ UNCHANGED r_global
  /\ AsmFrame

NextAssembly ==
  \/ ComputeResidual
  \/ ZeroJacobian
  \/ AssembleJacobian
  \/ FixDirichlet

SpecAssembly == InitAssembly /\ [][NextAssembly]_vars

(***************************************************************************)
(* SpecResidual: Poisson3::compute_residual, in both versions, by the      *)
(* ranks of a decomposition, one after the other.                          *)
(***************************************************************************)
ResidualSolvers(d) ==
  { [name |-> "Poisson3", dirichlet |-> {}],
    [name |-> "Poisson3, first version",
     dirichlet |-> { I \in Nodes3(d) : dirichlet_node_first(d, I) }] }

InitResidual ==
  /\ da \in AsmDAs
  /\ bc \in ResidualSolvers(da)
  /\ \E Hf \in AsmThickness(da) :
       P = ClassifyAll(da, [n \in Nodes(da) |-> [thickness |-> Hf[n], node_type |-> 0]], 1)
  /\ m_grid_info = [x_min |-> 0 - (da.Mx - 1), x_max |-> da.Mx - 1,
                    y_min |-> 0 - 2 * (da.My - 1), y_max |-> 2 * (da.My - 1)]
  /\ x_global = [I \in Nodes3(da) |-> 1 + I[1] + 2 * I[2] + 4 * I[3]]
  /\ x_nodal = [I \in Nodes3(da) |-> 10 + I[1] + I[2] + I[3]]
  /\ r_global = [I \in Nodes3(da) |-> RInt(7)]
  /\ J = Idle
  /\ todo = [n \in 1..(da.Nx * da.Ny) |-> <<RankSeq(da)[n], "residual">>]
  /\ op = "init"
  /\ level = 0 /\ pass = 0
  /\ IdlePoints /\ owned = Idle
  /\ dir = Idle /\ elem = Idle /\ pc = Idle
  /\ K = Idle /\ work = Idle
  /\ m_x = Idle /\ m_solution = Idle /\ snes = Idle /\ section = Idle
  /\ geometry = Idle /\ ice_thickness = Idle /\ IdleHooks

NextResidual == ComputeResidual

SpecResidual == InitResidual /\ [][NextResidual]_vars

(***************************************************************************)
(* SpecHooks: the multigrid hierarchy of Poisson3 on one process.          *)
(* Poisson3::setup allocates the parameter storage of the finest level and *)
(* registers the coarsening and the restriction hook on it.  The backend   *)
(* creates coarser levels (DMCoarsen), and in every solve, after           *)
(* init_2d_parameters has set the geometry of the finest level, it         *)
(* restricts level after level (DMRestrict) before it calls the residual   *)
(* and Jacobian callbacks of a coarse level.  DMCoarsen and DMRestrict run *)
(* the hooks registered on the fine level.                                 *)
(*                                                                         *)
(* dms[l] is the DM of the level l (1 is the finest): its DMDA, the names  *)
(* of the objects composed with it (PetscObjectCompose), whether the       *)
(* hooks are registered on it, the contents of its "2D_Vec", and whether   *)
(* the backend has brought the level up to date in the current solve.      *)
(***************************************************************************)
ParameterStorage == {"2D_DM", "2D_Vec", "3D_DM", "3D_Vec"}

\* A PetscErrorCode: 0, or PETSC_ERR_ARG_WRONG (62) set by SETERRQ.
Failed(h) == h.ierr # 0

\* ierr = f(...); CHKERRQ(ierr): the rest of the hook runs only after a
\* call that returned 0.
Call(h, name) == [h EXCEPT !.calls = Append(@, name)]

\* setup_level(dm, ...): creates the 2D and the 3D DMDA and a global Vec of
\* each and composes them with dm.  `stale` is the node type the new Vec
\* holds.
setup_level(h, l, stale) ==
  LET g == Call(h, "setup_level")
  IN [g EXCEPT !.dms[l].composed = @ \cup ParameterStorage,
               !.dms[l].P = [n \in Nodes(g.dms[l].da) |->
                               [thickness |-> 0, node_type |-> stale]]]

\* DMCoarsenHookAdd(dm, p3_coarsening_hook, p3_restriction_hook, ctx)
DMCoarsenHookAdd(h, l) ==
  [Call(h, "DMCoarsenHookAdd") EXCEPT !.dms[l].hooks = TRUE]

\* create_restriction(fine, coarse, dm_name, mat_name): needs dm_name on
\* both levels and attaches the interpolation to the fine one.
create_restriction(h, f, c, dm_name, mat_name) ==
  LET g == Call(h, "create_restriction")
  IN IF dm_name \notin g.dms[f].composed \/ dm_name \notin g.dms[c].composed
       THEN [g EXCEPT !.ierr = 62]
       ELSE [g EXCEPT !.dms[f].composed = @ \cup {mat_name}]

\* A coarsening hook that builds the restrictions before the storage of
\* the coarse level exists.
p3_coarsening_hook_restriction_first(h, f, c, stale) ==
  LET h1 == create_restriction(h, f, c, "2D_DM", "2D_Restriction")
      h2 == IF Failed(h1) THEN h1
            ELSE create_restriction(h1, f, c, "3D_DM", "3D_Restriction")
      h3 == IF Failed(h2) THEN h2 ELSE setup_level(h2, c, stale)
  IN IF Failed(h3) THEN h3 ELSE DMCoarsenHookAdd(h3, c)

\* A coarsening hook that does not register the hooks on the new level.
p3_coarsening_hook_not_recursive(h, f, c, stale) ==
  LET h1 == setup_level(h, c, stale)
      h2 == create_restriction(h1, f, c, "2D_DM", "2D_Restriction")
  IN IF Failed(h2) THEN h2
     ELSE create_restriction(h2, f, c, "3D_DM", "3D_Restriction")

\* p3_coarsening_hook(dm_fine, dm_coarse, ctx)
p3_coarsening_hook(h, f, c, stale) ==
  LET h1 == setup_level(h, c, stale)
      h2 == DMCoarsenHookAdd(h1, c)
      h3 == create_restriction(h2, f, c, "2D_DM", "2D_Restriction")
  IN IF Failed(h3) THEN h3
     ELSE create_restriction(h3, f, c, "3D_DM", "3D_Restriction")

\* restrict_data(fine, coarse, dm_name, mat_name, vec_name): needs the
\* restriction, the DM and the Vec on the fine level and the DM and the Vec
\* on the coarse one; MatRestrict(mat, X_fine, X_coarse).
RestrictData(h, f, c, dm_name, mat_name, vec_name) ==
  LET g == Call(h, "restrict_data")
  IN IF \/ {mat_name, dm_name, vec_name} \ g.dms[f].composed # {}
        \/ {dm_name, vec_name} \ g.dms[c].composed # {}
       THEN [g EXCEPT !.ierr = 62]
       ELSE IF vec_name = "2D_Vec"
              THEN [g EXCEPT !.dms[c].P = restrict_data(g.dms[f].da, g.dms[f].P)]
              ELSE g

\* A restriction hook that leaves the restricted node types in place.
p3_restriction_hook_no_node_type(h, f, c) ==
  LET h1 == RestrictData(h, f, c, "2D_DM", "2D_Restriction", "2D_Vec")
  IN IF Failed(h1) THEN h1
     ELSE RestrictData(h1, f, c, "3D_DM", "3D_Restriction", "3D_Vec")

\* p3_restriction_hook(fine, mrestrict, rscale, inject, coarse, ctx)
p3_restriction_hook(h, f, c) ==
  LET h1 == RestrictData(h, f, c, "2D_DM", "2D_Restriction", "2D_Vec")
      h2 == IF Failed(h1) THEN h1
            ELSE RestrictData(h1, f, c, "3D_DM", "3D_Restriction", "3D_Vec")
  IN IF Failed(h2) THEN h2
     ELSE [Call(h2, "compute_node_type") EXCEPT
             !.dms[c].P = compute_node_type(GhostedInfo(h2.dms[c].da, <<1, 1>>),
                                            h2.dms[c].P, min_thickness)]

\* A DM the backend has just created: nothing is composed with it.
NewDM(d) == [da |-> d, composed |-> {}, hooks |-> FALSE, P |-> <<>>, synced |-> FALSE]

\* The hierarchy a hook starts from.
Hierarchy == [dms |-> dms, ierr |-> 0, calls |-> <<>>]

\* After Poisson3::setup (setup_level, DMCoarsenHookAdd on m_da).
InitHooks ==
  /\ \E Mx0 \in (CoarseM - 1)..CoarseM, My0 \in (CoarseM - 1)..CoarseM,
        n_levels \in 1..MaxCoarsen :
       /\ \E L \in HalfWidths :
            grid = [Mx |-> Mx0, My |-> My0, Lx |-> L, Ly |-> L]
       /\ \E stale \in StaleNodeTypes :
            dms = DMCoarsenHookAdd(
                    setup_level([dms |-> <<NewDM(setup([Mx |-> Mx0, My |-> My0,
                                                        Nx |-> 1, Ny |-> 1,
                                                        lx |-> <<Mx0>>, ly |-> <<My0>>],
                                                       n_levels))>>,
                                 ierr |-> 0, calls |-> <<>>], 1, stale), 1).dms
  /\ hook_ierr = 0
  /\ op = "setup"
  /\ pc = <<>>
  /\ level = 1
  /\ pass = 0
  /\ P = Idle /\ IdleDecomp /\ IdleIter
  /\ dir = Idle /\ elem = Idle /\ J = Idle /\ todo = Idle
  /\ x_global = Idle /\ r_global = Idle /\ x_nodal = Idle
  /\ K = Idle /\ work = Idle /\ m_grid_info = Idle
  /\ m_x = Idle /\ m_solution = Idle /\ snes = Idle /\ section = Idle
  /\ geometry = Idle /\ ice_thickness = Idle /\ bc = Idle /\ padding = Idle

HooksFrame ==
  UNCHANGED <<grid, pts, visited, ncalls, width, da, owned, dir, elem, J, todo,
              x_global, r_global, x_nodal, P, K, work, m_grid_info,
              m_x, m_solution, snes, section, geometry, ice_thickness, bc,
              padding>>

\* DMCoarsen(fine): the backend creates the next coarser DM from the
\* coarsest one and runs the coarsening hook registered on it.
DMCoarsen ==
  /\ hook_ierr = 0
  /\ Len(dms) <= dms[1].da.n_levels
  /\ LET f == Len(dms)
         h == [Hierarchy EXCEPT !.dms = Append(@, NewDM(Coarsen(dms[f].da)))]
         g == IF dms[f].hooks THEN p3_coarsening_hook(h, f, f + 1, 0) ELSE h
     IN /\ dms' = g.dms
        /\ hook_ierr' = g.ierr
        /\ pc' = g.calls
        /\ level' = f
  /\ op' = "p3_coarsening_hook"
  /\ UNCHANGED pass
  /\ HooksFrame

\* Poisson3::init_2d_parameters, at the beginning of Poisson3::update.
Init2dParametersFinest ==
  /\ hook_ierr = 0
  /\ pass < MaxUpdates
  /\ dms' = [l \in 1..Len(dms) |->
               IF l = 1
                 THEN [dms[1] EXCEPT
                         !.P = compute_node_type(
                                 GhostedInfo(dms[1].da, <<1, 1>>),
                                 [n \in Nodes(dms[1].da) |->
                                    [dms[1].P[n] EXCEPT !.thickness = H(grid, n[1], n[2])]],
                                 min_thickness),
                         !.synced = TRUE]
                 ELSE [dms[l] EXCEPT !.synced = FALSE]]
  /\ pass' = pass + 1
  /\ op' = "init_2d_parameters"
  /\ level' = 1
  /\ pc' = <<"compute_node_type">>
  /\ UNCHANGED hook_ierr
  /\ HooksFrame

\* DMRestrict(fine, ..., coarse) during the solve: the backend runs the
\* restriction hook registered on the fine level.
DMRestrict(f) ==
  /\ hook_ierr = 0
  /\ pass >= 1
  /\ f + 1 <= Len(dms)
  /\ dms[f].synced
  /\ LET g == IF dms[f].hooks THEN p3_restriction_hook(Hierarchy, f, f + 1)
              ELSE Hierarchy
     IN /\ dms' = [g.dms EXCEPT ![f + 1].synced = TRUE]
        /\ hook_ierr' = g.ierr
        /\ pc' = g.calls
  /\ level' = f
  /\ op' = "p3_restriction_hook"
  /\ UNCHANGED pass
  /\ HooksFrame

\* The backend calls the residual or the Jacobian callback of a level.
LevelCallback(l, c) ==
  /\ hook_ierr = 0
  /\ pass >= 1
  /\ dms[l].synced
  /\ op' = c
  /\ level' = l
  /\ pc' = <<>>
  /\ UNCHANGED <<dms, hook_ierr, pass>>
  /\ HooksFrame

NextHooks ==
  \/ DMCoarsen
  \/ Init2dParametersFinest
  \/ \E f \in 1..MaxCoarsen : DMRestrict(f)
  \/ \E l \in 1..(MaxCoarsen + 1) : l <= Len(dms) /\ LevelCallback(l, "function_callback")
  \/ \E l \in 1..(MaxCoarsen + 1) : l <= Len(dms) /\ LevelCallback(l, "jacobian_callback")

SpecHooks == InitHooks /\ [][NextHooks]_vars

(***************************************************************************)
(* SpecPad: pad(N, n_levels) in the arithmetic of int, called for N and    *)
(* then for N + pad(N, n_levels).  A signed overflow is undefined: the     *)
(* call returns the value of two's complement arithmetic or does not       *)
(* return (a build that traps).                                            *)
(***************************************************************************)
MaxPadN == 4

\* What a call of pad can come to.
PadOutcomes(N, n_levels) ==
  LET r == PadRun(N, n_levels)
  IN IF r.overflow
       THEN {[returned |-> TRUE, value |-> r.value], [returned |-> FALSE, value |-> 0]}
       ELSE {[returned |-> TRUE, value |-> r.value]}

InitPad ==
  /\ \E N \in 1..MaxPadN, n_levels \in 0..(IntBits + 1) :
       padding = [N |-> N, n_levels |-> n_levels, calls |-> <<>>]
  /\ op = "init"
  /\ IdlePoints /\ IdleDecomp /\ IdleNodeType
  /\ dir = Idle /\ elem = Idle /\ J = Idle /\ todo = Idle
  /\ x_global = Idle /\ r_global = Idle /\ x_nodal = Idle /\ pc = Idle
  /\ K = Idle /\ work = Idle /\ m_grid_info = Idle
  /\ m_x = Idle /\ m_solution = Idle /\ snes = Idle /\ section = Idle
  /\ geometry = Idle /\ ice_thickness = Idle /\ bc = Idle
  /\ dms = Idle /\ hook_ierr = Idle

PadFrame ==
  UNCHANGED <<grid, pts, visited, ncalls, width, da, owned, dir, elem, J, todo,
              x_global, r_global, x_nodal, pc, P, level, pass, K, work,
              m_grid_info, m_x, m_solution, snes, section, geometry,
              ice_thickness, bc, dms, hook_ierr>>

\* pad(N, n_levels)
Pad ==
  /\ op = "init"
  /\ \E o \in PadOutcomes(padding.N, padding.n_levels) :
       padding' = [padding EXCEPT !.calls = <<o>>]
  /\ op' = "pad"
  /\ PadFrame

\* pad(N + pad(N, n_levels), n_levels)
PadPadded ==
  /\ op = "pad"
  /\ padding.calls[1].returned
  /\ LET padded == AddInt(padding.N, padding.calls[1].value)
     IN \E o \in PadOutcomes(padded[1], padding.n_levels)
                   \cup (IF padded[2] THEN {[returned |-> FALSE, value |-> 0]} ELSE {}) :
          padding' = [padding EXCEPT !.calls = Append(@, o)]
  /\ op' = "pad_padded"
  /\ PadFrame

NextPad == Pad \/ PadPadded

SpecPad == InitPad /\ [][NextPad]_vars

(***************************************************************************)
(* SpecElement: one fem::Element of a rank, reset to elements of the       *)
(* rank's loop and marked by mark_row_invalid and mark_col_invalid in any  *)
(* order.  pc holds the marks made since the reset before the last one.    *)
(***************************************************************************)
MaxMarks == 2

\* The alternative reset assigns m_row only and leaves m_col as it was.
ElementResetRowsOnly(e, g, i, j) ==
  LET rows == [k \in 1..q1_n_chi |->
                 [e.m_row[k] EXCEPT !.i = i + m_i_offset[k],
                                    !.j = j + m_j_offset[k],
                                    !.k = 0]]
  IN MarkRowsNotOwned(g, [e EXCEPT !.m_i = i, !.m_j = j, !.m_row = rows], 1)

\* Element::reset(i, j) on the element object e: the assignments to m_i,
\* m_j, m_col[k] and m_row[k], then the loop marking the rows that are not
\* owned.
ElementReset(e, g, i, j) ==
  LET cols == [k \in 1..q1_n_chi |->
                 [e.m_col[k] EXCEPT !.i = i + m_i_offset[k],
                                    !.j = j + m_j_offset[k],
                                    !.k = 0]]
      rows == [k \in 1..q1_n_chi |->
                 [e.m_row[k] EXCEPT !.i = cols[k].i,
                                    !.j = cols[k].j,
                                    !.k = cols[k].k]]
  IN MarkRowsNotOwned(g, [e EXCEPT !.m_i = i, !.m_j = j,
                                   !.m_col = cols, !.m_row = rows], 1)

InitElement ==
  /\ da \in DirDAs
  /\ \E r \in Ranks(da) : grid = RankGrid(da, r)
  /\ elem = reset(grid, 0, 0)
  /\ op = "init"
  /\ pc = [rows |-> {}, cols |-> {}]
  /\ dir = Idle /\ J = Idle /\ todo = Idle
  /\ x_global = Idle /\ r_global = Idle /\ x_nodal = Idle
  /\ owned = Idle
  /\ IdleIter
  /\ IdleNodeType
  /\ IdleBlatter

ElementFrame ==
  /\ UNCHANGED kvars
  /\ UNCHANGED <<grid, pts, visited, ncalls, width, da, owned,
                 dir, J, todo, x_global, r_global, x_nodal>>
  /\ UNCHANGED nvars

\* element.reset(i, j)
Reset ==
  /\ op # "reset"
  /\ \E e \in Range(ElementSeq(grid)) : elem' = ElementReset(elem, grid, e[1], e[2])
  /\ op' = "reset"
  /\ UNCHANGED pc
  /\ ElementFrame

MarksSoFar == IF op \in {"reset", "init"} THEN [rows |-> {}, cols |-> {}] ELSE pc

\* element.mark_row_invalid(k)
MarkRowInvalid ==
  /\ Cardinality(MarksSoFar.rows) + Cardinality(MarksSoFar.cols) < MaxMarks
  /\ \E k \in 1..q1_n_chi :
       /\ elem' = mark_row_invalid(elem, k)
       /\ pc' = [MarksSoFar EXCEPT !.rows = @ \cup {k}]
  /\ op' = "mark_row_invalid"
  /\ ElementFrame

\* element.mark_col_invalid(k)
MarkColInvalid ==
  /\ Cardinality(MarksSoFar.rows) + Cardinality(MarksSoFar.cols) < MaxMarks
  /\ \E k \in 1..q1_n_chi :
       /\ elem' = mark_col_invalid(elem, k)
       /\ pc' = [MarksSoFar EXCEPT !.cols = @ \cup {k}]
  /\ op' = "mark_col_invalid"
  /\ ElementFrame

NextElement == Reset \/ MarkRowInvalid \/ MarkColInvalid

SpecElement == InitElement /\ [][NextElement]_vars

(***************************************************************************)
(* SpecHalo: the ranks of every decomposition of a small grid compute the  *)
(* node types once, rank after rank, to be compared with the node types    *)
(* one process owning the whole grid computes.                             *)
(***************************************************************************)
HaloM == 3

HaloDAs ==
  UNION { { [Mx |-> HaloM, My |-> HaloM, Nx |-> Nx, Ny |-> Ny, lx |-> lx, ly |-> ly] :
              lx \in OwnershipRanges(HaloM, Nx), ly \in OwnershipRanges(HaloM, Ny) } :
          <<Nx, Ny>> \in (1..Min2(MaxProcs, HaloM)) \X (1..Min2(MaxProcs, HaloM)) }

\* The same grid owned by one process.
OneProcess(d) ==
  [d EXCEPT !.Nx = 1, !.Ny = 1, !.lx = <<d.Mx>>, !.ly = <<d.My>>]

InitHalo ==
  /\ da \in HaloDAs
  /\ \E Hf \in ThicknessFields(da), stale \in StaleNodeTypes :
       P = [n \in Nodes(da) |-> [thickness |-> Hf[n], node_type |-> stale]]
  /\ level = 0
  /\ pass = MaxPasses
  /\ todo = RankSeq(da)
  /\ op = "init"
  /\ grid = Idle /\ owned = Idle /\ IdleIter
  /\ dir = Idle /\ elem = Idle /\ J = Idle
  /\ x_global = Idle /\ r_global = Idle /\ x_nodal = Idle /\ pc = Idle
  /\ IdleBlatter

SpecHalo == InitHalo /\ [][NextNodeType]_vars

(***************************************************************************)
(* SpecJacobian: the ranks of a decomposition call compute_jacobian, rank  *)
(* after rank, MaxPasses times with the same parameters and node types.    *)
(***************************************************************************)
\* compute_jacobian(info, x, A, J) of Poisson3 and of Blatter on one rank:
\* MatZeroEntries, the loop over the elements, the loop over the owned
\* nodes.
compute_jacobian(b, info, gi, d, Pg, Jmat) ==
  JacobianDirichlet(b, info, gi, d, Pg,
    JacobianElementLoop(b, info, d.Mz, Pg, ZeroRows(info, Jmat)))

\* The entries of the matrix of a DMDA with a box stencil of width 1: row
\* and column are neighbours in the grid.
StencilPairs(d) ==
  { rc \in Nodes3(d) \X Nodes3(d) :
      \A c \in 1..3 : rc[1][c] - rc[2][c] \in {0 - 1, 0, 1} }

\* Thickness fields: ice everywhere, or everywhere but at one node of the
\* edge j = 0.
JacThickness(d) ==
  {[n \in Nodes(d) |-> thickness_one]} \cup
  { [n \in Nodes(d) |-> IF n = m THEN 0 ELSE thickness_one] :
      m \in { <<0, 0>>, <<d.Mx - 1, 0>> } }

InitJacobian ==
  /\ da \in AsmDAs
  /\ bc \in Solvers(da)
  /\ \E Hf \in JacThickness(da) :
       P = ClassifyAll(da, [n \in Nodes(da) |-> [thickness |-> Hf[n], node_type |-> 0]], 1)
  /\ m_grid_info = [x_min |-> 0 - (da.Mx - 1), x_max |-> da.Mx - 1,
                    y_min |-> 0 - 2 * (da.My - 1), y_max |-> 2 * (da.My - 1)]
  /\ J = [rc \in StencilPairs(da) |-> RInt(7)]
  /\ todo = RankSeq(da)
  /\ op = "init"
  /\ level = 0 /\ pass = 1
  /\ IdlePoints /\ owned = Idle
  /\ x_global = Idle /\ x_nodal = Idle /\ r_global = Idle
  /\ dir = Idle /\ elem = Idle /\ pc = Idle
  /\ K = Idle /\ work = Idle
  /\ m_x = Idle /\ m_solution = Idle /\ snes = Idle /\ section = Idle
  /\ geometry = Idle /\ ice_thickness = Idle /\ IdleHooks

\* The next rank calls compute_jacobian.
ComputeJacobian ==
  /\ todo # <<>>
  /\ J' = compute_jacobian(bc, GhostedInfo(da, Head(todo)), m_grid_info, da, P, J)
  /\ owned' = Head(todo)
  /\ op' = "compute_jacobian"
  /\ IF Tail(todo) = <<>> /\ pass < MaxPasses
       THEN todo' = RankSeq(da) /\ pass' = pass + 1
       ELSE todo' = Tail(todo) /\ pass' = pass
  /\ UNCHANGED <<grid, pts, visited, ncalls, width, da, dir, elem,
                 x_global, r_global, x_nodal, pc, P, level, K, work,
                 m_grid_info, section, geometry, ice_thickness, bc, hvars>>
  /\ UNCHANGED svars

NextJacobian == ComputeJacobian

SpecJacobian == InitJacobian /\ [][NextJacobian]_vars

(***************************************************************************)
(* Properties of grid iteration.                                           *)
(***************************************************************************)
NoDuplicates(s) == \A m, n \in 1..Len(s) : s[m] = s[n] => m = n

OwnedBox(g) == (g.xs..(g.xs + g.xm - 1)) \X (g.ys..(g.ys + g.ym - 1))

\* The n-th pair (n = 1, 2, ...) of the box [i0, i0+ni) x [j0, j0+nj) when
\* j runs fastest.
NthPair(i0, j0, nj, n) == <<i0 + ((n - 1) \div nj), j0 + ((n - 1) % nj)>>

\* C3: the owned-only loop yields each owned pair exactly once and no other
\* pair, in the fixed order "i outer, j inner", and the iterator turns false
\* after exactly xm*ym calls of next().
C3_OwnedOnlyLoop ==
  width = 0 =>
    /\ ncalls <= grid.xm * grid.ym
    /\ Len(visited) = ncalls
    /\ \A n \in 1..Len(visited) : visited[n] = NthPair(grid.xs, grid.ys, grid.ym, n)
    /\ (~Valid(pts)) <=> (ncalls = grid.xm * grid.ym)
    /\ (~Valid(pts)) => Range(visited) = OwnedBox(grid) /\ NoDuplicates(visited)

C3_Witness ==
  /\ width = 0 /\ ~Valid(pts)
  /\ grid.xm >= 2 /\ grid.ym >= 2 /\ grid.xs > 0
  /\ Len(visited) = grid.xm * grid.ym

\* The box of raw indices: the owned range widened by `width` on every side.
HaloBox(g, w) ==
  ((g.xs - w)..(g.xs + g.xm + w - 1)) \X ((g.ys - w)..(g.ys + g.ym + w - 1))

\* The indices the ghosted loop would visit if it clipped the halo on a
\* non-periodic axis and wrapped it on a periodic one.
ClippedOrWrapped(g, w) ==
  LET perx == PeriodicX(g.periodicity)
      pery == PeriodicY(g.periodicity)
      kept == { q \in HaloBox(g, w) :
                  /\ perx \/ q[1] \in 0..(g.Mx - 1)
                  /\ pery \/ q[2] \in 0..(g.My - 1) }
  IN { <<IF perx THEN q[1] % g.Mx ELSE q[1],
         IF pery THEN q[2] % g.My ELSE q[2]>> : q \in kept }

\* C5 as stated: the ghosted loop visits the owned indices plus the halo,
\* clipped to [0, M) on a non-periodic axis and wrapped modulo M on a
\* periodic one.
C5_AsStated ==
  /\ Range(visited) \subseteq ClippedOrWrapped(grid, width)
  /\ (~Valid(pts)) => Range(visited) = ClippedOrWrapped(grid, width)

\* C5 (amended): the ghosted loop visits exactly the raw index box
\* [xs-w, xs+xm+w-1] x [ys-w, ys+ym+w-1], each pair once; indices outside
\* [0, M) are neither clipped nor wrapped, whatever the periodicity.
C5_RawHaloBox ==
  /\ Range(visited) \subseteq HaloBox(grid, width)
  /\ NoDuplicates(visited)
  /\ (~Valid(pts)) => Range(visited) = HaloBox(grid, width)

C5_Witness ==
  /\ width >= 1 /\ ~Valid(pts)
  /\ grid.xs = 0 /\ grid.ys + grid.ym = grid.My
  /\ <<0 - width, grid.My - 1 + width>> \in Range(visited)

(***************************************************************************)
(* Properties of the decomposition.                                        *)
(***************************************************************************)
IndexSpace(d) == (0..(d.Mx - 1)) \X (0..(d.My - 1))

AllRanksDone == \A r \in Ranks(da) : owned[r] # <<>>

\* C4: the owned-only loops of the ranks of a (padded) decomposition are
\* pairwise disjoint, and together they visit every node of
\* [0, Mx) x [0, My) exactly once.
C4_OwnedRangesPartition ==
  /\ \A r \in Ranks(da) : NoDuplicates(owned[r]) /\ Range(owned[r]) \subseteq IndexSpace(da)
  /\ \A r, q \in Ranks(da) : r # q => Range(owned[r]) \cap Range(owned[q]) = {}
  /\ AllRanksDone => UNION { Range(owned[r]) : r \in Ranks(da) } = IndexSpace(da)

C4_Witness ==
  /\ AllRanksDone
  /\ da.Nx >= 2 /\ da.Ny >= 2
  /\ da.pad_x > 0 /\ da.pad_y > 0

(***************************************************************************)
(* Properties of Dirichlet enforcement.                                    *)
(***************************************************************************)
IsDirichlet(n) == dir.m_indices[n] = 1

\* The ranks that have called fix_jacobian.
JacobianFixedBy(r) ==
  \/ pc \in {"fix_residual", "done"}
  \/ pc = "fix_jacobian" /\ r \notin Range(todo)

ZeroBlock == ZeroTuple(dir.dof * dir.dof)

\* C1: once the Jacobian is zeroed, the row and the column of a Dirichlet
\* node stay zero off the diagonal throughout the assembly, the diagonal
\* block stays zero until the fix-up, and after fix_jacobian of the owning
\* rank the diagonal block is exactly weight (scalar) or weight * I (vector).
C1_DirichletRows ==
  pc # "zero" =>
    \A r \in Ranks(da) : \A n \in OwnedBox(RankGrid(da, r)) :
      IsDirichlet(n) =>
        /\ \A m \in Nodes(da) \ {n} :
             J[<<n, m>>] = ZeroBlock /\ J[<<m, n>>] = ZeroBlock
        /\ J[<<n, n>>] = IF JacobianFixedBy(r)
                            THEN IdentityBlock(dir.dof, dir.m_weight)
                            ELSE ZeroBlock

\* A Dirichlet node and a free node share an element, everything is
\* assembled and fixed, and the free node's row is not empty.
C1_Witness ==
  /\ pc = "done"
  /\ dir.dof = 2 /\ dir.m_weight = 3
  /\ da.Nx >= 2
  /\ \E n, m \in Nodes(da) :
       /\ IsDirichlet(n) /\ ~IsDirichlet(m)
       /\ J[<<n, n>>] = <<3, 0, 0, 3>>
       /\ J[<<m, m>>] # ZeroBlock

\* The expected residual after the rank with the grid g has fixed it: `val`
\* at the Dirichlet nodes it owns, the old residual elsewhere.
FixedResidual(g, val) ==
  [n \in Nodes(da) |->
     IF n \in OwnedBox(g) /\ IsDirichlet(n) THEN val[n] ELSE r_global[n]]

WeightedDifference ==
  [n \in Nodes(da) |-> TupleScale(dir.m_weight, TupleSub(x_global[n], dir.m_values[n]))]

WeightedIterate ==
  [n \in Nodes(da) |-> TupleScale(dir.m_weight, x_global[n])]

ZeroResidual == [n \in Nodes(da) |-> ZeroTuple(dir.dof)]

\* C7 as stated: fix_residual and fix_residual_homogeneous both overwrite
\* the residual at every owned Dirichlet node with weight * (iterate -
\* target), the target being zero in the homogeneous case, and leave the
\* residual elsewhere unchanged.
C7_AsStated ==
  [][/\ op' = "fix_residual" => r_global' = FixedResidual(grid', WeightedDifference)
     /\ op' = "fix_residual_homogeneous" => r_global' = FixedResidual(grid', WeightedIterate)]_vars

\* C7 (amended): fix_residual overwrites the residual at every owned
\* Dirichlet node with weight * (iterate - prescribed value);
\* fix_residual_homogeneous overwrites it with zero, whatever the iterate
\* and the weight; both leave the residual at every other node unchanged.
C7_FixResidual ==
  [][/\ op' = "fix_residual" => r_global' = FixedResidual(grid', WeightedDifference)
     /\ op' = "fix_residual_homogeneous" => r_global' = FixedResidual(grid', ZeroResidual)]_vars

\* Two ranks have fixed the residual homogeneously; the iterate is not zero
\* at the Dirichlet node, and a free node keeps its assembled residual.
C7_Witness ==
  /\ pc = "done" /\ op = "fix_residual_homogeneous" /\ da.Nx * da.Ny >= 2
  /\ \E n, m \in Nodes(da) :
       /\ IsDirichlet(n) /\ ~IsDirichlet(m)
       /\ r_global[n] = ZeroTuple(dir.dof) /\ WeightedIterate[n] # ZeroTuple(dir.dof)
       /\ r_global[m] = ResidualField(da, dir.dof)[m]

\* The node that the local node k of the current element refers to.
LocalNode(k) == Wrap(grid, elem.m_i + m_i_offset[k], elem.m_j + m_j_offset[k])

\* C8: enforce (enforce_homogeneous) changes x_nodal only at the local
\* nodes whose Dirichlet indicator is set: these entries become the
\* prescribed value of the node (zero), the other entries stay as they were.
C8_EnforceFrame ==
  [][/\ op' = "enforce" =>
          \A k \in 1..q1_n_chi :
            x_nodal'[k] = IF IsDirichlet(LocalNode(k))
                            THEN dir.m_values[LocalNode(k)] ELSE x_nodal[k]
     /\ op' = "enforce_homogeneous" =>
          \A k \in 1..q1_n_chi :
            x_nodal'[k] = IF IsDirichlet(LocalNode(k))
                            THEN ZeroTuple(dir.dof) ELSE x_nodal[k]]_vars

\* enforce has acted on a ghost element of a periodic grid that has a
\* Dirichlet node and a free node.
C8_Witness ==
  /\ op = "enforce" /\ elem.m_i = 0 - 1
  /\ \E k, l \in 1..q1_n_chi :
       /\ IsDirichlet(LocalNode(k)) /\ ~IsDirichlet(LocalNode(l))
       /\ x_nodal[k] = dir.m_values[LocalNode(k)]
       /\ x_nodal[l] = x_global[LocalNode(l)]

(***************************************************************************)
(* Properties of node classification.                                      *)
(***************************************************************************)
\* The elements of the grid a node belongs to (at most four).
IncidentElements(d, n) ==
  { e \in ((n[1] - 1)..n[1]) \X ((n[2] - 1)..n[2]) :
      /\ e[1] >= 0 /\ e[1] <= d.Mx - 2
      /\ e[2] >= 0 /\ e[2] <= d.My - 2 }

\* An element is icy if all of its nodes are at least min_thickness thick.
IcyElement(e) ==
  \A a, b \in 0..1 : P[<<e[1] + a, e[2] + b>>].thickness >= min_thickness

IcyCount(d, n) == Cardinality({ e \in IncidentElements(d, n) : IcyElement(e) })

ClassOfCount(count) ==
  IF count = 4 THEN NODE_INTERIOR
  ELSE IF count = 0 THEN NODE_EXTERIOR
  ELSE NODE_BOUNDARY

\* The ranks that have computed the node types in the current pass or,
\* from the second pass on, in the pass before.
HasClassified(r) == pass > 1 \/ r \notin Range(todo)

\* C2: the class compute_node_type gives a node is a function of the number
\* of icy elements among the elements incident to it: 4 gives INTERIOR,
\* 0 gives EXTERIOR, every other count gives BOUNDARY.
C2_CountToClass ==
  \A r \in Ranks(da) :
    HasClassified(r) =>
      \A n \in OwnedBox(LocalInfo(da, r)) :
        P[n].node_type = ClassOfCount(IcyCount(da, n))

\* All ranks are done, and the grid has an interior, a boundary and an
\* exterior node.
C2_Witness ==
  /\ todo = <<>> /\ da.Nx >= 2 /\ da.Ny >= 2
  /\ \E a, b, c \in Nodes(da) :
       /\ IcyCount(da, a) = 4 /\ P[a].node_type = NODE_INTERIOR
       /\ IcyCount(da, b) \in 1..3 /\ P[b].node_type = NODE_BOUNDARY
       /\ IcyCount(da, c) = 0 /\ P[c].node_type = NODE_EXTERIOR

\* C9: a rank that computes the node types again, with the thickness
\* unchanged, stores at every owned node the node type that was there,
\* whatever node types the storage and the ghost points hold.
C9_Idempotent ==
  [][(op' = "compute_node_type" /\ pass > 1) => P' = P]_vars

\* The second pass is over; the first one started from stale node types
\* and left interior (-1), boundary (0) and exterior (1) nodes for the
\* second one to find, some of them in ghost points.
C9_Witness ==
  /\ pass = MaxPasses /\ todo = <<>> /\ da.Nx * da.Ny >= 2
  /\ \E a, b \in Nodes(da) :
       P[a].node_type = NODE_INTERIOR /\ P[b].node_type = NODE_BOUNDARY

(***************************************************************************)
(* Properties of restriction followed by classification.                   *)
(***************************************************************************)
\* The node n of the current level lies in the support |x| <= 1, |y| <= 1
\* of the step function: it is the node 2^level * n of the finest level.
InSupport(n) ==
  /\ InsideStep(grid.Lx, grid.Mx, (2 ^ level) * n[1])
  /\ InsideStep(grid.Ly, grid.My, (2 ^ level) * n[2])

\* C10: on a coarse level, after restriction and classification, a node is
\* non-EXTERIOR exactly if it lies inside the support square of the step
\* function; every node outside of it is EXTERIOR.
C10_AsStated ==
  (op = "p3_restriction_hook") =>
    \A n \in Nodes(da) : (P[n].node_type # NODE_EXTERIOR) <=> InSupport(n)

(***************************************************************************)
(* Properties of the element Jacobian of the Blatter solver.               *)
(***************************************************************************)
Transposed(rc) == <<rc[2], rc[1]>>

\* The blocks (t, s) and (s, t) of different nodes are transposes of each
\* other once the lower triangle is filled.
OffDiagonalBlocksSymmetric ==
  (pc = "add_contribution") =>
    \A rc \in KIndices :
      (rc[1] \div 2 # rc[2] \div 2) => K[rc] = K[Transposed(rc)]

\* Without Newton terms (deta = 0) and without the derivative of the drag
\* the diagonal blocks are symmetric as well.
PicardSymmetric ==
  (/\ pc = "add_contribution"
   /\ \A q \in 1..elem.n_pts : work.deta[q] = 0
   /\ elem.k = 0 =>
        \A q \in 1..elem.n_pts :
          \/ work.floatation[q] > 0
          \/ work.dbeta[q] = 0
          \/ work.u[q].u = 0) =>
    \A rc \in KIndices : K[rc] = K[Transposed(rc)]

\* C6: the element matrix K passed to add_contribution satisfies
\* K[s][t] = K[t][s] for all 16 x 16 entries, those of the diagonal 2 x 2
\* blocks included, also for elements that receive the basal term.
C6_AsStated ==
  (pc = "add_contribution") =>
    \A rc \in KIndices : K[rc] = K[Transposed(rc)]

(***************************************************************************)
(* Properties of the padding of Poisson3::setup.                           *)
(***************************************************************************)
\* All entries of the ownership ranges but the last one agree.
SameButLast(new_l, l) ==
  /\ Len(new_l) = Len(l)
  /\ \A k \in 1..(Len(l) - 1) : new_l[k] = l[k]

RowsWritten == { n \in Nodes(da) : \E m \in Nodes(da) : J'[<<n, m>>] # J[<<n, m>>] }

\* The local rows of the current element whose node is outside of the range
\* the current rank owns.
RowsNotOwned == { k \in 1..q1_n_chi : local_to_global(elem, k) \notin OwnedBox(grid) }

\* C12: when a rank has reset an element and added its contribution, every
\* local row of a node outside of the range the rank owns is marked invalid,
\* and the rows of J that the contribution has changed are rows of nodes the
\* rank owns and no other rank owns.
C12_OwnedRowsOnly ==
  [][(pc = "assemble" /\ todo # <<>>) =>
       /\ \A k \in 1..q1_n_chi :
            local_to_global(elem', k) \notin OwnedBox(grid') =>
              /\ elem'.m_row[k].k = 1
              /\ elem'.m_row[k].i = m_invalid_dof
       /\ \A n \in RowsWritten :
            /\ n \in OwnedBox(grid')
            /\ \A r \in Ranks(da) :
                 r # Head(todo)[1] => n \notin OwnedBox(RankGrid(da, r))]_vars

\* Two ranks; the current one has added the contribution of an element that
\* has a node of the other rank and an unconstrained node of its own, and J
\* has an entry in the row of the latter.
C12_Witness ==
  /\ op = "add_contribution"
  /\ da.Nx * da.Ny = 2
  /\ \E k \in RowsNotOwned :
       /\ dir.m_indices[Wrap(grid, local_to_global(elem, k)[1], local_to_global(elem, k)[2])] = 0
       /\ elem.m_row[k].k = 1
       /\ elem.m_col[k].k = 0
  /\ \E k \in (1..q1_n_chi) \ RowsNotOwned :
       /\ elem.m_row[k].k = 0
       /\ \E m \in Nodes(da) : J[<<local_to_global(elem, k), m>>] # ZeroBlock

(***************************************************************************)
(* Properties of the nonlinear solve.                                      *)
(***************************************************************************)
\* C13: when a callback has run, no exception has left it; if the
\* computation threw, the exception went through handle_fatal_errors and
\* the callback returned a non-zero code; the callback returned 0 only if
\* the computation did not throw.
C13_CallbackBoundary ==
  snes.callback # "none" =>
    /\ snes.escaped = NoException
    /\ snes.thrown # NoException => (snes.handled /\ snes.ret # 0)
    /\ snes.ret = 0 => snes.thrown = NoException

\* jacobian_callback has caught an exception that is not a std::exception
\* and the backend has left the solve with its error code.
C13_Witness ==
  /\ snes.callback = "jacobian"
  /\ snes.thrown = "other"
  /\ snes.handled
  /\ snes.pc = "solved"
  /\ snes.ierr = 1

\* C14 as stated: when the solve has failed (an error of the backend or no
\* convergence), update ends with a failure, leaves the exposed solution
\* alone and puts the stored iterate back to where the solve started.
C14_AsStated ==
  [][(snes.pc = "solved" /\ snes.reason # "converged") =>
       /\ snes'.result # "returned"
       /\ m_solution' = m_solution
       /\ m_x' = snes.start]_vars

\* What update does on a failure that SNESSolve reports as an error code:
\* it throws and leaves the exposed solution alone.
ErrorCodeSurfaced ==
  [][(snes.pc = "solved" /\ snes.ierr # 0) =>
       /\ snes'.result = "RuntimeError"
       /\ m_solution' = m_solution]_vars

(***************************************************************************)
(* Properties of the guarded loop of fix_jacobian.                         *)
(***************************************************************************)
SomeRankFailed == \E q \in Ranks(da) : section[q].m_failed

\* C15: if an insertion has failed on one rank, no rank returns from
\* fix_jacobian normally: every rank that has left the check, the ranks
\* whose own loop succeeded included, has left it with the failure.
C15_FailureSeenByAll ==
  \A r \in Ranks(da) :
    /\ section[r].pc = "returned" => ~SomeRankFailed
    /\ (section[r].pc = "thrown" /\ ~section[r].m_failed) => SomeRankFailed
    /\ (SomeRankFailed /\ section[r].pc \notin {"call", "check"}) =>
         section[r].pc = "thrown"

\* Two ranks: the insertion failed on one of them, and the other, whose loop
\* succeeded, has left the check with the failure.
C15_Witness ==
  /\ Cardinality(Ranks(da)) = 2
  /\ \E r, q \in Ranks(da) :
       /\ section[r].m_failed /\ ~section[q].m_failed
       /\ section[q].pc = "thrown"

(***************************************************************************)
(* Properties of remove_narrow_tongues.  On the periodic grid every cell   *)
(* has its eight neighbours; Box(n) is the mask around the cell n.         *)
(***************************************************************************)
Box(n) == int_box(grid, geometry.cell_type, n[1], n[2])

Direct == {"n", "e", "s", "w"}

Opposite(d) == CASE d = "n" -> "s" [] d = "s" -> "n" [] d = "e" -> "w" [] OTHER -> "e"

\* The two diagonal neighbours next to the direct neighbour d.
Adjacent(d) ==
  CASE d = "n" -> {"nw", "ne"} [] d = "s" -> {"sw", "se"}
    [] d = "e" -> {"ne", "se"} [] OTHER -> {"nw", "sw"}

\* The neighbour d of the cell is not ice-free ocean and the other seven are.
AttachedOnlyAt(n, d) ==
  /\ ~ice_free_ocean(Box(n)[d])
  /\ \A o \in BoxDirections \ {d} : ice_free_ocean(Box(n)[o])

BelowSeaLevel(n) == geometry.bed_elevation[n] < geometry.sea_level_elevation[n]

Called == op = "remove_narrow_tongues"

AllOcean(n) == \A o \in BoxDirections : ice_free_ocean(Box(n)[o])

C18_ThicknessKept ==
  [][op' = "remove_narrow_tongues" =>
       /\ geometry' = geometry
       /\ \A n \in Nodes(grid) :
            (\E d \in Direct :
               /\ ~ice_free(Box(n)[d])
               /\ \/ ~ice_free(Box(n)[Opposite(d)])
                  \/ \E a \in Adjacent(d) : ~ice_free(Box(n)[a])) =>
              ice_thickness'[n] = ice_thickness[n]]_vars

\* The centre cell is grounded below the sea level; its western and
\* north-western neighbours are ice, the other six are ocean, and the centre
\* cell still has its ice.
C18_Witness ==
  /\ Called
  /\ grounded_ice(geometry.cell_type[<<1, 1>>])
  /\ BelowSeaLevel(<<1, 1>>)
  /\ grounded_ice(Box(<<1, 1>>).w) /\ grounded_ice(Box(<<1, 1>>).nw)
  /\ \A o \in BoxDirections \ {"w", "nw"} : ice_free_ocean(Box(<<1, 1>>)[o])
  /\ ice_thickness[<<1, 1>>] > 0

(***************************************************************************)
(* Properties of the 3D assembly.                                          *)
(***************************************************************************)
ReplacedNode(I) == Replaced(bc, da.Mz, P, I)

EntriesWritten == { rc \in DOMAIN J : J'[rc] # J[rc] }

\* C19: the element loop of compute_jacobian changes no entry of J in the
\* row or in the column of a Dirichlet or exterior node; the loop over the
\* owned nodes that follows it changes diagonal entries of such nodes only,
\* in rows that the element loops have left at zero.
C19_DisjointRows ==
  [][/\ (todo # <<>> /\ Head(todo)[2] = "elements") =>
          \A rc \in EntriesWritten : ~ReplacedNode(rc[1]) /\ ~ReplacedNode(rc[2])
     /\ (todo # <<>> /\ Head(todo)[2] = "dirichlet") =>
          \A rc \in EntriesWritten :
            /\ rc[1] = rc[2] /\ ReplacedNode(rc[1])
            /\ \A I \in Nodes3(da) : REq(J[<<rc[1], I>>], RInt(0))]_vars

\* Two ranks have assembled; an element with a Dirichlet node next to an
\* exterior column has contributed, and the diagonal entries of a Dirichlet
\* node and of an exterior node hold their scaling.
C19_Witness ==
  /\ todo = <<>>
  /\ da.Nx * da.Ny = 2
  /\ \E I, M, N \in Nodes3(da) :
       /\ P[<<I[1], I[2]>>].node_type = NODE_EXTERIOR
       /\ P[<<M[1], M[2]>>].node_type # NODE_EXTERIOR
       /\ dirichlet_node(bc, da.Mz, M)
       /\ ~ReplacedNode(N)
       /\ J[<<I, I>>] = Scaling(bc, m_grid_info, da, P, I)
       /\ J[<<M, M>>] = Scaling(bc, m_grid_info, da, P, M)
       /\ J[<<N, N>>][1] > 0
       /\ REq(J[<<N, M>>], RInt(0))

\* The scale of the specification: dx dy dz (1/dx^2 + 1/dy^2 + 1/dz^2)
StatedScale(dx, dy, dz) ==
  RMul(RMul(RMul(dx, dy), dz),
       RAdd(RAdd(RDiv(RInt(1), RMul(dx, dx)), RDiv(RInt(1), RMul(dy, dy))),
            RDiv(RInt(1), RMul(dz, dz))))

StatedScaleAt(I) ==
  StatedScale(GridSpacing(m_grid_info.x_min, m_grid_info.x_max, da.Mx),
              GridSpacing(m_grid_info.y_min, m_grid_info.y_max, da.My),
              LayerThickness(P[<<I[1], I[2]>>].thickness, da.Mz))

\* C20 as stated: when Poisson3 has computed the residual and the Jacobian,
\* the residual at an exterior node is scale (x - u_exterior) and the
\* diagonal entry of J there is scale, with scale = dx dy dz (1/dx^2 +
\* 1/dy^2 + 1/dz^2).
C20_AsStated ==
  (bc.name = "Poisson3" /\ todo = <<>>) =>
    \A I \in Nodes3(da) :
      P[<<I[1], I[2]>>].node_type = NODE_EXTERIOR =>
        /\ REq(r_global[I], RMul(StatedScaleAt(I), RInt(x_global[I] - u_exterior)))
        /\ REq(J[<<I, I>>], StatedScaleAt(I))

\* What does hold: the diagonal entry of J at an exterior or Dirichlet node
\* is the factor of x in the residual at that node.
DiagonalMatchesResidual ==
  (bc.name = "Poisson3" /\ todo = <<>>) =>
    \A I \in Nodes3(da) :
      ReplacedNode(I) =>
        REq(r_global[I],
            RMul(J[<<I, I>>],
                 RInt(x_global[I] - (IF P[<<I[1], I[2]>>].node_type = NODE_EXTERIOR
                                       THEN u_exterior ELSE x_nodal[I]))))

(***************************************************************************)
(* Properties of the icy-element test.                                     *)
(***************************************************************************)
\* An element all of whose nodes are thicker than min_thickness.
ThickerThanMinimum(e) ==
  \A a, b \in 0..1 : P[<<e[1] + a, e[2] + b>>].thickness > min_thickness

\* C21: compute_node_type counts an element as icy if and only if each of
\* its four nodal thicknesses exceeds min_thickness, so that an element with
\* a node of thickness exactly min_thickness is not counted: the class of a
\* node is the class of the number of its incident elements that are
\* thicker than the minimum at every node.
C21_AsStated ==
  \A r \in Ranks(da) :
    HasClassified(r) =>
      \A n \in OwnedBox(LocalInfo(da, r)) :
        P[n].node_type =
          ClassOfCount(Cardinality({ e \in IncidentElements(da, n) :
                                       ThickerThanMinimum(e) }))

(***************************************************************************)
(* Properties of the multigrid hooks.                                      *)
(***************************************************************************)
Restrictions == {"2D_Restriction", "3D_Restriction"}

\* C22: when the backend creates a coarser level from a level that carries
\* the hooks, the coarsening hook allocates the 2D and 3D parameter storage
\* of the new level, then registers the hooks on the new level, then
\* attaches the 2D and the 3D restriction to the fine level; so no hook
\* fails, and at every depth a restriction hook finds the storage of the
\* coarse level and the restrictions and runs to its end.
C22_HooksAtEveryDepth ==
  /\ hook_ierr = 0
  /\ (op = "p3_coarsening_hook") =>
       pc = <<"setup_level", "DMCoarsenHookAdd",
              "create_restriction", "create_restriction">>
  /\ \A f \in 1..(Len(dms) - 1) :
       /\ dms[f].hooks
       /\ Restrictions \subseteq dms[f].composed
       /\ ParameterStorage \subseteq dms[f + 1].composed
       /\ dms[f + 1].hooks
  /\ (op = "p3_restriction_hook") =>
       pc = <<"restrict_data", "restrict_data", "compute_node_type">>

\* The restriction hook has run between the second and the third level, the
\* third having been created by the hook registered by the first coarsening.
C22_Witness ==
  /\ op = "p3_restriction_hook" /\ level = 2 /\ hook_ierr = 0
  /\ Len(dms) = 3 /\ dms[3].synced
  /\ ParameterStorage \subseteq dms[3].composed

\* The class of the node n of a level with the DMDA d and the parameters
\* Pl: the class of the number of its incident elements that have no node
\* thinner than min_thickness.
ClassOfThickness(d, Pl, n) ==
  ClassOfCount(Cardinality({ e \in IncidentElements(d, n) :
                               \A a, b \in 0..1 :
                                 Pl[<<e[1] + a, e[2] + b>>].thickness >= min_thickness }))

Classified(l) ==
  \A n \in Nodes(dms[l].da) :
    dms[l].P[n].node_type = ClassOfThickness(dms[l].da, dms[l].P, n)

\* C23: init_2d_parameters classifies the nodes of the finest level after
\* it has set the thickness, the restriction hook classifies the nodes of
\* the coarse level after it has restricted the fields; so whenever a
\* residual or Jacobian callback runs on a level, the node types stored on
\* that level are the classification of the thickness stored on it.
C23_NodeTypesCurrent ==
  /\ (op = "init_2d_parameters") => Classified(1)
  /\ (op = "p3_restriction_hook") => Classified(level + 1)
  /\ (op \in {"function_callback", "jacobian_callback"}) => Classified(level)

\* A callback runs on the third level in the second solve; the element of
\* that level is icy, and the second level has nodes with and without ice.
C23_Witness ==
  /\ op = "jacobian_callback" /\ level = 3 /\ pass = 2
  /\ \E n \in Nodes(dms[3].da) : dms[3].P[n].node_type # NODE_EXTERIOR
  /\ \E a, b \in Nodes(dms[2].da) :
       /\ dms[2].P[a].node_type = NODE_EXTERIOR
       /\ dms[2].P[b].node_type # NODE_EXTERIOR

\* What the code does instead: the elements counted are those without a
\* node thinner than min_thickness.
ThresholdIsNotStrict ==
  \A r \in Ranks(da) :
    HasClassified(r) =>
      \A n \in OwnedBox(LocalInfo(da, r)) :
        P[n].node_type = ClassOfThickness(da, P, n)

(***************************************************************************)
(* Properties of the residual at Dirichlet nodes.                          *)
(***************************************************************************)
\* The node I is a node of a Neumann face of an element of the grid that
\* the element loop does not skip.
OnNeumannFace(I) ==
  \E e \in (0..(da.Mx - 2)) \X (0..(da.My - 2)) \X (0..(da.Mz - 2)) :
    /\ ElementVisited(bc, P, e)
    /\ \E f \in DOMAIN incident_nodes :
         /\ NeumannFace(bc, P, e, f)
         /\ \E n \in 1..4 : local_to_global3(e, incident_nodes[f][n]) = I

\* The residual the loop over the owned nodes sets at a Dirichlet node.
DirichletExpression(I) ==
  IF FirstVersion(bc) THEN RInt(x_nodal[I] - x_global[I])
  ELSE RMul(Scaling(bc, m_grid_info, da, P, I), RInt(x_global[I] - x_nodal[I]))

\* C24: when a rank has computed the residual, the residual at each of its
\* nodes that is both a Dirichlet node and a node of a Neumann face is the
\* Dirichlet expression of the loop over the owned nodes: no element has
\* added a volume or a face contribution to it.
C24_DirichletWins ==
  [][(todo # <<>> /\ Head(todo)[2] = "residual") =>
       \A I \in Nodes3(da) :
         (/\ <<I[1], I[2]>> \in OwnedNodes(AsmInfo)
          /\ dirichlet_node(bc, da.Mz, I)
          /\ OnNeumannFace(I)) => REq(r_global'[I], DirichletExpression(I))]_vars

\* Two ranks have computed the residual; a Dirichlet node of a Neumann face
\* holds the Dirichlet expression, and a node of that kind of face that is
\* not a Dirichlet node has received the contribution of a face.
C24_Witness ==
  /\ op = "residual" /\ todo = <<>> /\ da.Nx * da.Ny = 2
  /\ \E I, N \in Nodes3(da) :
       /\ dirichlet_node(bc, da.Mz, I) /\ OnNeumannFace(I)
       /\ REq(r_global[I], DirichletExpression(I))
       /\ r_global[I][1] # 0
       /\ ~dirichlet_node(bc, da.Mz, N) /\ OnNeumannFace(N)
       /\ r_global[N][1] >= 10

(***************************************************************************)
(* Properties of the traversal order of remove_narrow_tongues.             *)
(***************************************************************************)
\* C25: remove_narrow_tongues gives the same ice_thickness for every
\* traversal order of the owned points: the result of the loop taken in the
\* order `visited` is the result of the loop in the order of Points.
C25_OrderIndependent ==
  [][RemoveNarrowTonguesInOrder =>
       ice_thickness' = remove_narrow_tongues(grid, geometry, ice_thickness)]_vars

\* The loop ran in the reverse of the order of Points and removed two
\* tongues that are neighbours of each other.
C25_Witness ==
  /\ op = "remove_narrow_tongues"
  /\ visited # <<>>
  /\ visited[Len(visited)] = <<0, 0>> /\ visited[1] # <<0, 1>> /\ visited[1] # <<1, 0>>
  /\ \E a \in Nodes(grid), b \in Nodes(grid) :
       /\ a # b
       /\ (a[1] = b[1] \/ a[2] = b[2])
       /\ ~ice_free(geometry.cell_type[a]) /\ ice_thickness[a] = 0
       /\ ~ice_free(geometry.cell_type[b]) /\ ice_thickness[b] = 0

(***************************************************************************)
(* Properties of pad.                                                      *)
(***************************************************************************)
\* 2^n_levels divides N - 1 + value (value >= 0, N >= 1).
PaddedDivisible(N, n_levels, value) ==
  LET y == AddInt(N - 1, value)
  IN IF y[2] THEN n_levels = IntBits - 1 /\ y[1] = INT_MIN
     ELSE IF n_levels <= IntBits - 2 THEN y[1] % (2 ^ n_levels) = 0
     ELSE y[1] = 0

\* The calls made so far returned the least padding: non-negative, below
\* 2^n_levels, N - 1 + pad divisible by 2^n_levels, and no padding for the
\* padded N.
LeastPadding ==
  /\ Len(padding.calls) >= 1 =>
       /\ padding.calls[1].returned
       /\ padding.calls[1].value >= 0
       /\ (padding.n_levels <= IntBits - 2 =>
             padding.calls[1].value < 2 ^ padding.n_levels)
       /\ PaddedDivisible(padding.N, padding.n_levels, padding.calls[1].value)
  /\ Len(padding.calls) >= 2 =>
       /\ padding.calls[2].returned
       /\ padding.calls[2].value = 0

\* C30 as stated: for all N >= 1 and n_levels >= 0, pad(N, n_levels) is
\* non-negative, smaller than 2^n_levels, the least padding that makes
\* N - 1 + pad divisible by 2^n_levels, and pad(N + pad(N, n_levels),
\* n_levels) is 0.
C30_AsStated == LeastPadding

\* N - 1 rounded up to a multiple of 2^n_levels, plus one, is an int.
PadFitsInt ==
  /\ padding.n_levels <= IntBits - 2
  /\ padding.N - 1 <= INT_MAX - 2 ^ padding.n_levels

\* C30: for N >= 1 and 0 <= n_levels <= 30 with N - 1 + 2^n_levels at most
\* INT_MAX, pad(N, n_levels) is non-negative, smaller than 2^n_levels, the
\* least padding that makes N - 1 + pad divisible by 2^n_levels, and
\* pad(N + pad(N, n_levels), n_levels) is 0.
C30_LeastPaddingWithinInt == PadFitsInt => LeastPadding

\* Both calls were made with the largest n_levels that fits, and the first
\* one returned a positive padding.
C30_Witness ==
  /\ op = "pad_padded"
  /\ padding.n_levels = IntBits - 2
  /\ Len(padding.calls) = 2
  /\ padding.calls[1].value > 0

(***************************************************************************)
(* Properties of Element::reset.                                           *)
(***************************************************************************)
\* The stencil of the k-th node of the element, not marked.
NodeStencil(e, k) ==
  [i |-> e.m_i + m_i_offset[k], j |-> e.m_j + m_j_offset[k], k |-> 0]

\* The k-th node of the element is owned by the process of the grid g.
NodeOwned(g, e, k) ==
  /\ e.m_i + m_i_offset[k] \in g.xs..(g.xs + g.xm - 1)
  /\ e.m_j + m_j_offset[k] \in g.ys..(g.ys + g.ym - 1)

\* C28: marks of invalid rows and columns do not leak from one element to
\* the next: after any sequence of reset, mark_row_invalid and
\* mark_col_invalid, a reset(i, j) leaves every column valid, and a row
\* valid exactly when its node is owned by the calling process.
C28_MarksDoNotLeak ==
  op = "reset" =>
    \A k \in 1..q1_n_chi :
       /\ elem.m_col[k] = NodeStencil(elem, k)
       /\ (elem.m_row[k] = NodeStencil(elem, k)) <=> NodeOwned(grid, elem, k)
       /\ ~NodeOwned(grid, elem, k) =>
            elem.m_row[k] = [i |-> m_invalid_dof, j |-> m_invalid_dof, k |-> 1]

\* The element held a marked column and a marked row when it was reset, the
\* row marked is the row of an owned node now, and another node of the
\* element is not owned.
C28_Witness ==
  /\ op = "reset"
  /\ pc.cols # {}
  /\ \E k \in pc.rows : NodeOwned(grid, elem, k)
  /\ \E k \in 1..q1_n_chi : ~NodeOwned(grid, elem, k)

(***************************************************************************)
(* Properties of the node types of a decomposed grid.                      *)
(***************************************************************************)
\* The node n is on the edge of the global grid.
OnDomainEdge(d, n) ==
  n[1] = 0 \/ n[1] = d.Mx - 1 \/ n[2] = 0 \/ n[2] = d.My - 1

\* C27: the class compute_node_type gives a node does not depend on the
\* decomposition: the nodes of the rank that has just classified have the
\* classes that one process owning the whole grid gives them for the same
\* thickness, and a node on the edge of the grid is never INTERIOR.
C27_DecompositionIndependent ==
  op = "compute_node_type" =>
    LET one == compute_node_type(GhostedInfo(OneProcess(da), <<1, 1>>), P,
                                 min_thickness)
    IN \A n \in OwnedNodes(LocalInfo(da, owned)) :
         /\ P[n].node_type = one[n].node_type
         /\ OnDomainEdge(da, n) => P[n].node_type # NODE_INTERIOR

\* The last of four ranks has classified; one of its nodes lies on the
\* lower edges of its owned range (its incident elements reach into the
\* halo in both directions) and is INTERIOR, another of its nodes is
\* BOUNDARY on the edge of the grid.
C27_Witness ==
  /\ op = "compute_node_type" /\ todo = <<>>
  /\ da.Nx = 2 /\ da.Ny = 2
  /\ LET info == LocalInfo(da, owned)
     IN /\ P[<<info.xs, info.ys>>].node_type = NODE_INTERIOR
        /\ \E n \in OwnedNodes(info) :
             OnDomainEdge(da, n) /\ P[n].node_type = NODE_BOUNDARY

(***************************************************************************)
(* Properties of compute_jacobian.                                         *)
(***************************************************************************)
\* The ranks that have called compute_jacobian.
HasAssembled(r) == pass > 1 \/ r \notin Range(todo)

\* The columns of the row I that hold a non-zero entry.
RowPattern(I) ==
  { M \in Nodes3(da) : <<I, M>> \in DOMAIN J /\ ~REq(J[<<I, M>>], RInt(0)) }

\* The elements of the grid that have the node I and are not skipped.
AssembledElementsAt(I) ==
  { e \in ElementsAt(GhostedInfo(OneProcess(da), <<1, 1>>), da.Mz, I) :
      ~exterior_element(P, e) }

\* C26: after Poisson3::compute_jacobian every owned node has a non-empty
\* row: the row of an EXTERIOR or Dirichlet node holds the diagonal scaling
\* entry and nothing else, every other node belongs to an element that is
\* not skipped and has entries from it; and an element is skipped by the
\* exterior test if and only if it is not icy.
C26_NoEmptyRow ==
  bc.name = "Poisson3" =>
    /\ \A r \in Ranks(da) :
         HasAssembled(r) =>
           \A I \in Nodes3(da) :
             <<I[1], I[2]>> \in OwnedNodes(LocalInfo(da, r)) =>
               /\ RowPattern(I) # {}
               /\ Replaced(bc, da.Mz, P, I) =>
                    /\ RowPattern(I) = {I}
                    /\ J[<<I, I>>] = Scaling(bc, m_grid_info, da, P, I)
               /\ ~Replaced(bc, da.Mz, P, I) =>
                    /\ AssembledElementsAt(I) # {}
                    /\ I \in RowPattern(I)
    /\ \A e \in ElementRange3(GhostedInfo(OneProcess(da), <<1, 1>>), da.Mz) :
         exterior_element(P, e) <=> ~Interior(P, e[1], e[2], min_thickness)

\* All ranks have assembled; the grid has an EXTERIOR node whose thickness
\* is not below the minimum, a Dirichlet node that is not EXTERIOR and a
\* node that is neither; its row has more than one entry.
C26_Witness ==
  /\ bc.name = "Poisson3" /\ todo = <<>> /\ da.Nx * da.Ny > 1
  /\ \E A \in Nodes3(da), B \in Nodes3(da), C \in Nodes3(da) :
       /\ P[<<A[1], A[2]>>].node_type = NODE_EXTERIOR
       /\ P[<<A[1], A[2]>>].thickness >= min_thickness
       /\ P[<<B[1], B[2]>>].node_type # NODE_EXTERIOR /\ dirichlet_node(bc, da.Mz, B)
       /\ ~Replaced(bc, da.Mz, P, C)
       /\ Cardinality(RowPattern(C)) > 1

\* C29: the evaluation of the Jacobian does not accumulate across calls:
\* a rank that calls compute_jacobian again, with the same parameters and
\* node types, leaves J as its call before left it, although the elements
\* and the diagonal entries of the Dirichlet and exterior nodes are added
\* to J (ADD_VALUES).
C29_NoAccumulation ==
  [][(ComputeJacobian /\ pass > 1) => J' = J]_vars

\* Every rank of the Blatter solver has called compute_jacobian MaxPasses
\* times; J has the diagonal entry of a Dirichlet node and an entry that
\* two elements have added to.
C29_Witness ==
  /\ op = "compute_jacobian" /\ todo = <<>> /\ pass = MaxPasses /\ pass > 1
  /\ bc.name = "Blatter"
  /\ \E I \in bc.dirichlet : REq(J[<<I, I>>], RInt(1))
  /\ \E I \in Nodes3(da) : ~Replaced(bc, da.Mz, P, I) /\ J[<<I, I>>][1] >= 2

====
